---------------------------- MODULE Spec2Model ----------------------------
(***************************************************************************)
(* A model of the document data-and-persistence core of grist-core:       *)
(*   - TableData (src/unnamed/part_001): the columnar in-memory table,    *)
(*     its action handlers, loadData and fetchData;                        *)
(*   - SQLiteDB (src/app/server/lib/SQLiteDB.ts): openDB with create,      *)
(*     migration and backup, and execTransaction;                          *)
(*   - getWorker (src/app/server/lib/AppEndpoint.ts): the fetch from the   *)
(*     document's worker, with removal of a missing worker and retry.      *)
(* Each part has its own specification; the variables of the other parts  *)
(* stay at their idle values.                                              *)
(***************************************************************************)
EXTENDS Integers, Sequences, FiniteSets, TLC

\* The names of the fields of the model's records, in alphabetical order.
\* TLC keeps the fields of a record in the order in which their names first
\* occur in the module; every record below lists its fields in this order.
FieldNames ==
  [
   action |-> "action", active |-> "active",
   assignment |-> "assignment", backup |-> "backup",
   behind |-> "behind", body |-> "body", cache |-> "cache",
   callers |-> "callers", calls |-> "calls", colArray |-> "colArray",
   colId |-> "colId", colInfo |-> "colInfo", colValues |-> "colValues",
   cols |-> "cols", columns |-> "columns", data |-> "data",
   data0 |-> "data0", defined |-> "defined", defl |-> "defl",
   docStatus |-> "docStatus", err |-> "err",
   existed0 |-> "existed0", exists |-> "exists",
   fetchPromise |-> "fetchPromise", fn |-> "fn", handle |-> "handle",
   idCol |-> "idCol", inTransaction |-> "inTransaction",
   isLoaded |-> "isLoaded", kind |-> "kind", loadedWith |-> "loadedWith",
   managed |-> "managed",
   memOpens |-> "memOpens", migrationBackupPath |-> "migrationBackupPath",
   migrationError |-> "migrationError", mode |-> "mode", n |-> "n",
   nMig |-> "nMig", needVacuum |-> "needVacuum", nested |-> "nested",
   newColId |-> "newColId", newTableId |-> "newTableId", next |-> "next",
   open |-> "open", opens |-> "opens", ops |-> "ops", outcome |-> "outcome",
   owner |-> "owner", path |-> "path", pc |-> "pc", prev |-> "prev",
   prevTransaction |-> "prevTransaction", promises |-> "promises",
   raised |-> "raised", readonly |-> "readonly", received |-> "received",
   record |-> "record", records |-> "records", requested |-> "requested",
   result |-> "result", ret |-> "ret", rowId |-> "rowId",
   rowIdCol |-> "rowIdCol", rowIds |-> "rowIds", rowMap |-> "rowMap",
   stack |-> "stack", state |-> "state", table |-> "table",
   tableId |-> "tableId", threw |-> "threw", txn |-> "txn", type |-> "type",
   userVersion |-> "userVersion", v0 |-> "v0", values |-> "values",
   version |-> "version", versions |-> "versions", wData |-> "wData",
   wVersion |-> "wVersion", workers |-> "workers",
   writes |-> "writes"
  ]

VARIABLES
  td,          \* the TableData instance: a record of its private fields
  promises,    \* the promises fetchData has created, by id (position)
  fnCalls,     \* history: number of invocations of fetchFunc
  op,          \* history: the last public operation on td and its result
  fresh,       \* history: every row id added so far was not resident when added
  steps,       \* history: the number of operations applied to td (SpecTable)
  db,          \* the store file, the SQL engine's connection and the SQLiteDB handle
  call,        \* the openDB call in progress: its arguments, locals and position
  sqlLog,      \* history: the statements and callbacks run, with their outcome
  tasks,       \* the callers of execTransaction on the open handle, by id
  txns,        \* the transactions _execTransactionImpl was called for, by id
  openPaths,   \* SQLiteDB._openPaths: path -> number of times it is open
  handles,     \* the SQLiteDB handles openDBRaw has returned, by id (position)
  regOp,       \* history: the last openDBRaw or close call and its outcome
  docWorkerMap, \* the doc worker map: the workers listed, the document's assignment
  gw,          \* the getWorker call: its locals, its position and its outcome
  gwLog        \* history: the assignments, fetches and removals of the call

tdVars == <<td, promises, fnCalls, op, fresh, steps>>
sqlVars == <<db, call, sqlLog>>
txnVars == <<tasks, txns>>
regVars == <<openPaths, handles, regOp>>
gwVars == <<docWorkerMap, gw, gwLog>>

(***************************************************************************)
(* Bounds of the model.                                                    *)
(***************************************************************************)
MaxRowId == 3
MaxRows == 3
MaxBulk == 2
MaxSteps == 3
MaxMig == 3
MaxVer == 3
MaxCalls == 2
MaxOps == 2
MaxHandles == 3
MaxWorkers == 3

(***************************************************************************)
(* JavaScript values.  Cell values and row ids are numbers; the two        *)
(* non-numeric values the model needs are coded as negative numbers that   *)
(* no row id or cell value of the model takes.                             *)
(***************************************************************************)
Undef == -1
EmptyStr == -2

RowIds == 1..MaxRowId
CellVals == {1}
ColIds == {"a", "b"}
ColTypes == {"Int", "Text"}

\* app/common/gristTypes getDefaultForType: a default per declared type.
getDefaultForType(type) ==
  CASE type = "Int" -> 0
    [] type = "Text" -> EmptyStr
    [] type = "Id" -> 0
    [] OTHER -> Undef

(***************************************************************************)
(* JavaScript arrays (0-based) on sequences, and Maps on functions.        *)
(***************************************************************************)
ArrGet(a, i) == IF i >= 0 /\ i < Len(a) THEN a[i + 1] ELSE Undef

\* a[i] = v: an index at or past the length grows the array, the gap undefined.
ArrSet(a, i, v) ==
  IF i < Len(a) THEN [a EXCEPT ![i + 1] = v]
  ELSE a \o [k \in 1..(i - Len(a)) |-> Undef] \o <<v>>

ArrPop(a) == IF Len(a) = 0 THEN a ELSE SubSeq(a, 1, Len(a) - 1)

ArrMapConst(a, v) == [k \in 1..Len(a) |-> v]

MapHas(m, k) == k \in DOMAIN m
MapGet(m, k) == IF k \in DOMAIN m THEN m[k] ELSE Undef
MapSet(m, k, v) == [x \in (DOMAIN m) \cup {k} |-> IF x = k THEN v ELSE m[x]]
MapDelete(m, k) == [x \in (DOMAIN m) \ {k} |-> m[x]]
EmptyMap == [x \in {} |-> 0]

\* colValues.hasOwnProperty(colId) ? colValues[colId] : defl
OwnOr(colValues, colId, defl) ==
  IF colId \in DOMAIN colValues THEN colValues[colId] ELSE defl

(***************************************************************************)
(* TableData.  _columns maps a column id to a ColData object; an object is *)
(* named by a reference: 0 is the 'id' object, whose values array IS       *)
(* _rowIdCol, and k >= 1 is the object at position k of _colArray.         *)
(***************************************************************************)
IdRef == 0

ColData(colId, type, values) ==
  [colId |-> colId, defl |-> getDefaultForType(type), type |-> type, values |-> values]

\* new TableData(tableId, null, colTypes), colTypes given as a sequence of
\* <<colId, type>> in the object's key order.
RECURSIVE ctorColumns(_, _)
ctorColumns(colTypes, k) ==
  IF k = 0 THEN [x \in {"id"} |-> IdRef]
  ELSE LET m == ctorColumns(colTypes, k - 1)
       IN  IF colTypes[k][1] = "id" THEN m ELSE MapSet(m, colTypes[k][1], k)

TableDataNew(tableId, colTypes) ==
  [ colArray     |-> [k \in 1..Len(colTypes) |->
                        ColData(colTypes[k][1], colTypes[k][2], <<>>)],
    columns      |-> ctorColumns(colTypes, Len(colTypes)),
    fetchPromise |-> 0,
    idCol        |-> [colId |-> "id", defl |-> 0, type |-> "Id"],
    isLoaded     |-> FALSE,
    rowIdCol     |-> <<>>,
    rowMap       |-> EmptyMap,
    tableId      |-> tableId ]

numRecords(t) == Len(t.rowIdCol)

\* The comparator of getSortedRowIds, (a, b) => a - b, as an order.
numericOrder(a, b) == a < b

\* getSortedRowIds: a sorted copy of _rowIdCol.
getSortedRowIds(t) == SortSeq(t.rowIdCol, numericOrder)

\* The values array of the object a reference names.
RefValues(t, ref) == IF ref = IdRef THEN t.rowIdCol ELSE t.colArray[ref].values

\* The table with the values array of the object `ref` replaced.
WithRefValues(t, ref, vals) ==
  IF ref = IdRef THEN [t EXCEPT !.rowIdCol = vals]
  ELSE [t EXCEPT !.colArray[ref].values = vals]

\* The references _columns.values() yields.
ColumnRefs(t) == {t.columns[c] : c \in DOMAIN t.columns}

\* The ColData object a reference names.
RefColData(t, ref) == IF ref = IdRef THEN t.idCol ELSE t.colArray[ref]

\* getValue(rowId, colId)
getValue(t, rowId, colId) ==
  IF MapHas(t.columns, colId) /\ MapHas(t.rowMap, rowId)
  THEN ArrGet(RefValues(t, t.columns[colId]), t.rowMap[rowId])
  ELSE Undef

\* getColIds(), as a set: the keys of _columns.
getColIds(t) == DOMAIN t.columns

\* getColValues(colId)
getColValues(t, colId) ==
  IF MapHas(t.columns, colId) THEN RefValues(t, t.columns[colId]) ELSE Undef

\* getColType(colId)
getColType(t, colId) ==
  IF MapHas(t.columns, colId) THEN RefColData(t, t.columns[colId]).type ELSE Undef

\* getTableDataAction without the filter that leaves 'id' out.
getTableDataAction_WithId(t) ==
  [colValues |-> [c \in getColIds(t) |-> getColValues(t, c)],
   kind |-> "TableData",
   rowIds |-> t.rowIdCol,
   tableId |-> t.tableId]

\* getTableDataAction(): ['TableData', tableId, rowIds, colValues].
getTableDataAction(t) ==
  [colValues |-> [c \in getColIds(t) \ {"id"} |-> getColValues(t, c)],
   kind |-> "TableData",
   rowIds |-> t.rowIdCol,
   tableId |-> t.tableId]

\* getRowIds(): the row-id array itself.
getRowIds(t) == t.rowIdCol

\* getDistinctValues(colId, count): the distinct values met in the column
\* until there are count of them; n is the number of elements looked at.
RECURSIVE distinctValues(_, _, _)
distinctValues(vals, n, count) ==
  IF n = 0 THEN {}
  ELSE LET seen == distinctValues(vals, n - 1, count)
       IN  IF Cardinality(seen) < count THEN seen \cup {vals[n]} ELSE seen

getDistinctValues(t, colId, count) ==
  IF ~MapHas(t.columns, colId) THEN Undef
  ELSE distinctValues(getColValues(t, colId), Len(getColValues(t, colId)), count)

\* The record built for storage position index: { id: _rowIdCol[index] }, then
\* ret[colData.colId] = colData.values[index] for the first k objects of
\* _colArray, a later object overwriting an earlier one of the same colId.
RECURSIVE rowRecord(_, _, _)
rowRecord(t, index, k) ==
  IF k = 0 THEN [c \in {"id"} |-> ArrGet(t.rowIdCol, index)]
  ELSE MapSet(rowRecord(t, index, k - 1), t.colArray[k].colId,
              ArrGet(t.colArray[k].values, index))

\* getRecord(rowId): defined is false for the result undefined.
getRecord(t, rowId) ==
  IF ~MapHas(t.rowMap, rowId) THEN [defined |-> FALSE, record |-> EmptyMap]
  ELSE [defined |-> TRUE, record |-> rowRecord(t, t.rowMap[rowId], Len(t.colArray))]

\* getRecords()
getRecords(t) ==
  [i \in 1..Len(t.rowIdCol) |-> rowRecord(t, i - 1, Len(t.colArray))]

\* The inner loop of filterRecords for the row at position i, from the k-th
\* property on; properties is the sequence of <<key, value>> in key order.
\* p[1].values of a key that names no column is a property read of undefined,
\* a TypeError.
RECURSIVE matchRow(_, _, _, _)
matchRow(t, properties, i, k) ==
  IF k > Len(properties) THEN "match"
  ELSE IF ~MapHas(t.columns, properties[k][1]) THEN "TypeError"
  ELSE IF ArrGet(RefValues(t, t.columns[properties[k][1]]), i) # properties[k][2]
       THEN "skip"
  ELSE matchRow(t, properties, i, k + 1)

\* filterRecords(properties): whether it threw, and the records it returned.
filterRecords(t, properties) ==
  LET rowIndices == SelectSeq([i \in 1..Len(t.rowIdCol) |-> i - 1],
                      LAMBDA i : matchRow(t, properties, i, 1) = "match")
  IN  IF \E i \in 0..(Len(t.rowIdCol) - 1) :
            matchRow(t, properties, i, 1) = "TypeError"
      THEN [records |-> <<>>, threw |-> TRUE]
      ELSE [records |-> [j \in 1..Len(rowIndices) |->
                           rowRecord(t, rowIndices[j], Len(t.colArray))],
            threw |-> FALSE]

\* indexOf: the first 0-based position of v in the array, -1 when there is none.
indexOf(a, v) ==
  IF \E k \in 1..Len(a) : a[k] = v
  THEN (CHOOSE k \in 1..Len(a) : a[k] = v /\ \A j \in 1..(k - 1) : a[j] # v) - 1
  ELSE 0 - 1

\* findRow(colId, colValue)
findRow(t, colId, colValue) ==
  IF ~MapHas(t.columns, colId) THEN 0
  ELSE LET index == indexOf(RefValues(t, t.columns[colId]), colValue)
       IN  IF index < 0 THEN 0 ELSE ArrGet(t.rowIdCol, index)

(***************************************************************************)
(* loadData                                                                *)
(***************************************************************************)
RECURSIVE rowMapFrom(_, _)
rowMapFrom(rowIds, n) ==
  IF n = 0 THEN EmptyMap
  ELSE MapSet(rowMapFrom(rowIds, n - 1), rowIds[n], n - 1)

\* loadData without this._rowMap.clear(): old index entries stay.
loadData_NoClear(t, rowIds, colValues) ==
  [t EXCEPT
     !.rowIdCol = rowIds,
     !.colArray = [k \in 1..Len(t.colArray) |->
        [t.colArray[k] EXCEPT !.values =
           IF t.colArray[k].colId \in DOMAIN colValues
           THEN colValues[t.colArray[k].colId]
           ELSE ArrMapConst(rowIds, t.colArray[k].defl)]],
     !.rowMap = [x \in (DOMAIN t.rowMap) \cup (DOMAIN rowMapFrom(rowIds, Len(rowIds))) |->
                   IF x \in DOMAIN rowMapFrom(rowIds, Len(rowIds))
                   THEN rowMapFrom(rowIds, Len(rowIds))[x] ELSE t.rowMap[x]],
     !.isLoaded = TRUE]

loadData(t, rowIds, colValues) ==
  [t EXCEPT
     !.rowIdCol = rowIds,
     !.colArray = [k \in 1..Len(t.colArray) |->
        [t.colArray[k] EXCEPT !.values =
           IF t.colArray[k].colId \in DOMAIN colValues
           THEN colValues[t.colArray[k].colId]
           ELSE ArrMapConst(rowIds, t.colArray[k].defl)]],
     !.rowMap = rowMapFrom(rowIds, Len(rowIds)),
     !.isLoaded = TRUE]

\* reassignArray(targetArray, sourceArray): targetArray.length = 0, then the
\* elements of sourceArray are spliced in.  same tells that both are one
\* array: emptying the target has then emptied the source as well.
reassignArray(target, source, same) == IF same THEN <<>> ELSE source

RECURSIVE reassignOwnColumns(_, _, _)
\* The loop of loadData over _colArray, up to its k-th object, when colValues
\* is the value map of the table's own getTableDataAction(): colValues[c] is
\* the values array of the object _columns has under c, at its content of the
\* moment the loop reaches it.  s is the table after reassignArray of
\* _rowIdCol.
reassignOwnColumns(s, colIds, k) ==
  IF k = 0 THEN s
  ELSE LET u == reassignOwnColumns(s, colIds, k - 1)
           c == u.colArray[k].colId
       IN  IF c \in colIds
           THEN WithRefValues(u, k,
                  reassignArray(u.colArray[k].values, RefValues(u, u.columns[c]),
                                u.columns[c] = k))
           ELSE WithRefValues(u, k, ArrMapConst(u.rowIdCol, u.colArray[k].defl))

\* loadData(this.getTableDataAction()): tableData[2] is _rowIdCol itself and
\* tableData[3] holds the values arrays of the columns themselves.
loadDataOwnExport(t) ==
  LET rowIds == reassignArray(t.rowIdCol, getTableDataAction(t).rowIds, TRUE)
      s == reassignOwnColumns([t EXCEPT !.rowIdCol = rowIds],
                              DOMAIN getTableDataAction(t).colValues,
                              Len(t.colArray))
  IN  [s EXCEPT !.rowMap = rowMapFrom(rowIds, Len(rowIds)), !.isLoaded = TRUE]

\* loadData returning this._rowIdCol itself instead of the copy made of it:
\* after reassignArray that array holds the new row ids.
loadDataResult_NoSlice(t, rowIds) == rowIds

\* The value loadData(tableData) returns, rowIds being tableData[2]: oldRowIds,
\* the copy of _rowIdCol made before the reassignment.
loadDataResult(t, rowIds) == t.rowIdCol

(***************************************************************************)
(* The ActionDispatcher handlers TableData implements.                     *)
(***************************************************************************)
onAddRecord(t, rowId, colValues) ==
  LET index == Len(t.rowIdCol)
  IN  [t EXCEPT
         !.rowMap = MapSet(t.rowMap, rowId, index),
         !.rowIdCol = ArrSet(t.rowIdCol, index, rowId),
         !.colArray = [k \in 1..Len(t.colArray) |->
            [t.colArray[k] EXCEPT !.values =
               ArrSet(@, index, OwnOr(colValues, t.colArray[k].colId,
                                      t.colArray[k].defl))]]]

RECURSIVE bulkAddIds(_, _, _, _)
\* The first loop of onBulkAddRecord, for i = 0 .. n-1.
bulkAddIds(t, index, rowIds, n) ==
  IF n = 0 THEN t
  ELSE LET s == bulkAddIds(t, index, rowIds, n - 1)
           i == n - 1
       IN  [s EXCEPT !.rowMap = MapSet(s.rowMap, rowIds[n], index + i),
                     !.rowIdCol = ArrSet(s.rowIdCol, index + i, rowIds[n])]

RECURSIVE bulkAddValues(_, _, _, _, _)
\* The inner loop of onBulkAddRecord over one column's values array.
bulkAddValues(values, index, n, col, colValues) ==
  IF n = 0 THEN values
  ELSE LET i == n - 1
       IN  ArrSet(bulkAddValues(values, index, n - 1, col, colValues), index + i,
                  IF col.colId \in DOMAIN colValues
                  THEN ArrGet(colValues[col.colId], i) ELSE col.defl)

onBulkAddRecord(t, rowIds, colValues) ==
  LET index == Len(t.rowIdCol)
      s == bulkAddIds(t, index, rowIds, Len(rowIds))
  IN  [s EXCEPT !.colArray = [k \in 1..Len(s.colArray) |->
         [s.colArray[k] EXCEPT !.values =
            bulkAddValues(@, index, Len(rowIds), s.colArray[k], colValues)]]]

\* values[index] = values[last]; values.pop() on the object `ref`.
\* Removal that closes the gap by shifting the later elements down.
moveLastInto_Splice(t, ref, index, last) ==
  LET vals == RefValues(t, ref)
  IN  WithRefValues(t, ref,
        [i \in 1..(Len(vals) - 1) |-> IF i <= index THEN vals[i] ELSE vals[i + 1]])

moveLastInto(t, ref, index, last) ==
  LET vals == RefValues(t, ref)
  IN  WithRefValues(t, ref, ArrPop(ArrSet(vals, index, ArrGet(vals, last))))

RECURSIVE moveLastAll(_, _, _, _)
moveLastAll(t, refs, index, last) ==
  IF refs = {} THEN t
  ELSE LET r == CHOOSE x \in refs : TRUE
       IN  moveLastAll(moveLastInto(t, r, index, last), refs \ {r}, index, last)

\* onRemoveRecord without line 339, the re-indexing of the row moved into the
\* freed position.
onRemoveRecord_NoReindex(t, rowId) ==
  IF ~MapHas(t.rowMap, rowId) THEN t
  ELSE LET index == t.rowMap[rowId]
           last == Len(t.rowIdCol) - 1
           s == moveLastAll(t, ColumnRefs(t), index, last)
       IN  [s EXCEPT !.rowMap = MapDelete(s.rowMap, rowId)]

onRemoveRecord(t, rowId) ==
  IF ~MapHas(t.rowMap, rowId) THEN t
  ELSE LET index == t.rowMap[rowId]
           last == Len(t.rowIdCol) - 1
           s == moveLastAll(t, ColumnRefs(t), index, last)
       IN  [s EXCEPT !.rowMap =
              MapDelete(MapSet(s.rowMap, ArrGet(s.rowIdCol, index), index), rowId)]

RECURSIVE onBulkRemoveRecord(_, _)
\* ActionDispatcher's default: the rows are removed one after another.
onBulkRemoveRecord(t, rowIds) ==
  IF rowIds = <<>> THEN t
  ELSE onBulkRemoveRecord(onRemoveRecord(t, Head(rowIds)), Tail(rowIds))

RECURSIVE updateCols(_, _, _, _)
\* for (colId in colValues) { colData = _columns.get(colId); if (colData) ... }
\* valueOf(colId) is the value written for that column.
updateCols(t, index, colIds, valueOf) ==
  IF colIds = {} THEN t
  ELSE LET c == CHOOSE x \in colIds : TRUE
           s == IF MapHas(t.columns, c)
                THEN WithRefValues(t, t.columns[c],
                       ArrSet(RefValues(t, t.columns[c]), index, valueOf[c]))
                ELSE t
       IN  updateCols(s, index, colIds \ {c}, valueOf)

onUpdateRecord(t, rowId, colValues) ==
  IF ~MapHas(t.rowMap, rowId) THEN t
  ELSE updateCols(t, t.rowMap[rowId], DOMAIN colValues, colValues)

RECURSIVE bulkUpdateFrom(_, _, _, _)
\* The loop of onBulkUpdateRecord from position i (1-based) on.
bulkUpdateFrom(t, rowIds, colValues, i) ==
  IF i > Len(rowIds) THEN t
  ELSE LET s == IF MapHas(t.rowMap, rowIds[i])
                THEN updateCols(t, t.rowMap[rowIds[i]], DOMAIN colValues,
                       [c \in DOMAIN colValues |-> ArrGet(colValues[c], i - 1)])
                ELSE t
       IN  bulkUpdateFrom(s, rowIds, colValues, i + 1)

\* onBulkUpdateRecord that stops after the first row id.
onBulkUpdateRecord_FirstOnly(t, rowIds, colValues) ==
  bulkUpdateFrom(t, <<rowIds[1]>>, colValues, 1)

onBulkUpdateRecord(t, rowIds, colValues) == bulkUpdateFrom(t, rowIds, colValues, 1)

onReplaceTableData(t, rowIds, colValues) == loadData(t, rowIds, colValues)

\* onAddColumn that starts the new column with an empty values array.
onAddColumn_NoBackfill(t, colId, colInfo) ==
  IF MapHas(t.columns, colId) THEN t
  ELSE [t EXCEPT
          !.columns = MapSet(t.columns, colId, Len(t.colArray) + 1),
          !.colArray = Append(t.colArray, ColData(colId, colInfo.type, <<>>))]

\* onAddColumn without the test of _columns.has(colId).
onAddColumn_NoGuard(t, colId, colInfo) ==
  [t EXCEPT
     !.columns = MapSet(t.columns, colId, Len(t.colArray) + 1),
     !.colArray = Append(t.colArray,
        ColData(colId, colInfo.type,
                ArrMapConst(t.rowIdCol, getDefaultForType(colInfo.type))))]

onAddColumn(t, colId, colInfo) ==
  IF MapHas(t.columns, colId) THEN t
  ELSE [t EXCEPT
          !.columns = MapSet(t.columns, colId, Len(t.colArray) + 1),
          !.colArray = Append(t.colArray,
             ColData(colId, colInfo.type,
                     ArrMapConst(t.rowIdCol, getDefaultForType(colInfo.type))))]

\* gutil.arrayRemove(_colArray, colData) for the object at position k (k >= 1),
\* with the references of _columns kept pointing at the same objects.
dropColObject(t, k) ==
  [t EXCEPT
     !.colArray = [j \in 1..(Len(t.colArray) - 1) |->
                     IF j < k THEN t.colArray[j] ELSE t.colArray[j + 1]],
     !.columns = [c \in DOMAIN t.columns |->
                     IF t.columns[c] > k THEN t.columns[c] - 1 ELSE t.columns[c]]]

onRemoveColumn(t, colId) ==
  IF ~MapHas(t.columns, colId) THEN t
  ELSE LET ref == t.columns[colId]
           s == [t EXCEPT !.columns = MapDelete(t.columns, colId)]
       IN  IF ref = IdRef THEN s ELSE dropColObject(s, ref)

onRenameColumn(t, oldColId, newColId) ==
  IF ~MapHas(t.columns, oldColId) THEN t
  ELSE LET ref == t.columns[oldColId]
           s == IF ref = IdRef THEN [t EXCEPT !.idCol.colId = newColId]
                ELSE [t EXCEPT !.colArray[ref].colId = newColId]
       IN  [s EXCEPT !.columns = MapDelete(MapSet(t.columns, newColId, ref), oldColId)]

\* onModifyColumn without line 406: the type tag changes, the default stays.
onModifyColumn_KeepDefl(t, oldColId, colInfo) ==
  IF MapHas(t.columns, oldColId) /\ colInfo.type # "none"
  THEN LET ref == t.columns[oldColId]
       IN  IF ref = IdRef
           THEN [t EXCEPT !.idCol.type = colInfo.type]
           ELSE [t EXCEPT !.colArray[ref].type = colInfo.type]
  ELSE t

\* colInfo.type = "none" stands for a colInfo without a 'type' property.
onModifyColumn(t, oldColId, colInfo) ==
  IF MapHas(t.columns, oldColId) /\ colInfo.type # "none"
  THEN LET ref == t.columns[oldColId]
       IN  IF ref = IdRef
           THEN [t EXCEPT !.idCol.type = colInfo.type,
                          !.idCol.defl = getDefaultForType(colInfo.type)]
           ELSE [t EXCEPT !.colArray[ref].type = colInfo.type,
                          !.colArray[ref].defl = getDefaultForType(colInfo.type)]
  ELSE t

onRenameTable(t, oldTableId, newTableId) == [t EXCEPT !.tableId = newTableId]

onAddTable(t, tableId, columns) == t

\* onRemoveTable that leaves the load flag as it is.
onRemoveTable_Keep(t, tableId) == t

onRemoveTable(t, tableId) == [t EXCEPT !.isLoaded = FALSE]

\* loadPartial without line 114: the rows are added, the flag is left alone.
loadPartial_NoFlag(t, rowIds, colValues) == onBulkAddRecord(t, rowIds, colValues)

loadPartial(t, rowIds, colValues) ==
  [onBulkAddRecord(t, rowIds, colValues) EXCEPT !.isLoaded = TRUE]

unloadPartial(t, rowIds) == onBulkRemoveRecord(t, rowIds)

(***************************************************************************)
(* Actions.  An action is a record: kind is the tag, the other fields are  *)
(* the payload the dispatcher unpacks.                                     *)
(***************************************************************************)
RowDataKinds == {"AddRecord", "BulkAddRecord", "RemoveRecord", "BulkRemoveRecord",
                 "UpdateRecord", "BulkUpdateRecord", "ReplaceTableData"}
SchemaKinds == {"AddColumn", "RemoveColumn", "RenameColumn", "ModifyColumn",
                "AddTable", "RemoveTable", "RenameTable"}

\* A tag outside the vocabulary.
UnknownKinds == {"NoSuchAction"}

\* DocActions.isSchemaAction
isSchemaAction(action) == action.kind \in SchemaKinds

\* ActionDispatcher.dispatchAction: the handler named after the tag.
dispatchAction(t, action) ==
  CASE action.kind = "AddRecord" -> onAddRecord(t, action.rowId, action.colValues)
    [] action.kind = "BulkAddRecord" -> onBulkAddRecord(t, action.rowIds, action.colValues)
    [] action.kind = "RemoveRecord" -> onRemoveRecord(t, action.rowId)
    [] action.kind = "BulkRemoveRecord" -> onBulkRemoveRecord(t, action.rowIds)
    [] action.kind = "UpdateRecord" -> onUpdateRecord(t, action.rowId, action.colValues)
    [] action.kind = "BulkUpdateRecord" -> onBulkUpdateRecord(t, action.rowIds, action.colValues)
    [] action.kind = "ReplaceTableData" -> onReplaceTableData(t, action.rowIds, action.colValues)
    [] action.kind = "AddColumn" -> onAddColumn(t, action.colId, action.colInfo)
    [] action.kind = "RemoveColumn" -> onRemoveColumn(t, action.colId)
    [] action.kind = "RenameColumn" -> onRenameColumn(t, action.colId, action.newColId)
    [] action.kind = "ModifyColumn" -> onModifyColumn(t, action.colId, action.colInfo)
    [] action.kind = "RenameTable" -> onRenameTable(t, action.tableId, action.newTableId)
    [] action.kind = "AddTable" -> onAddTable(t, action.tableId, <<>>)
    [] action.kind = "RemoveTable" -> onRemoveTable(t, action.tableId)
    [] OTHER -> t

\* ActionDispatcher.dispatchAction raises for a tag that names no handler.
dispatchThrows(action) == action.kind \notin RowDataKinds \cup SchemaKinds

\* receiveAction without the isLoaded test: every action is dispatched.
receiveAction_AlwaysDispatch(t, action) ==
  [ret |-> ~dispatchThrows(action), table |-> dispatchAction(t, action),
   threw |-> dispatchThrows(action)]

\* receiveAction: the table afterwards, the value returned, and whether the
\* call raised instead of returning (ret is then FALSE and means nothing).
receiveAction(t, action) ==
  IF t.isLoaded \/ isSchemaAction(action)
  THEN [ret |-> ~dispatchThrows(action), table |-> dispatchAction(t, action),
        threw |-> dispatchThrows(action)]
  ELSE [ret |-> FALSE, table |-> t, threw |-> FALSE]

(***************************************************************************)
(* The inputs the specifications draw from.                                *)
(***************************************************************************)
\* A singular action's colValues: column id -> value, for some of the columns cs.
ColValuesSet(cs) == UNION {[S -> CellVals] : S \in SUBSET cs}

\* Sequences of row ids of length 1 .. MaxBulk.
RowIdSeqs == UNION {[1..n -> RowIds] : n \in 1..MaxBulk}

\* A bulk action's colValues for n rows: column id -> n values.
BulkColValuesSet(cs, n) == UNION {[S -> [1..n -> CellVals]] : S \in SUBSET cs}

InitColTypes == <<<<"a", "Int">>>>

Resident(t, rowId) == \E k \in 1..Len(t.rowIdCol) : t.rowIdCol[k] = rowId

Distinct(seq) == \A i, j \in 1..Len(seq) : i # j => seq[i] # seq[j]

\* The row ids an action adds are not resident and pairwise different.
AddsFresh(t, action) ==
  CASE action.kind = "AddRecord" -> ~Resident(t, action.rowId)
    [] action.kind = "BulkAddRecord" ->
         Distinct(action.rowIds)
         /\ \A k \in 1..Len(action.rowIds) : ~Resident(t, action.rowIds[k])
    [] OTHER -> TRUE

(***************************************************************************)
(* SQLiteDB: the store, the engine and the handle.                         *)
(*                                                                         *)
(* The store's content is a set of effects: Old for the tables it held     *)
(* before the open, Created for what schemaInfo.create makes, Mig(k) for   *)
(* what migration k makes.  data and version are the committed content and *)
(* user_version of the file; wData and wVersion are what the connection    *)
(* sees inside its open transaction (active).                              *)
(***************************************************************************)
Modes == {"OPEN_CREATE", "OPEN_EXISTING", "OPEN_READONLY", "CREATE_EXCL"}

Old == <<"old", 0>>
Created == <<"create", 0>>
Mig(k) == <<"mig", k>>

NoErr == "none"
NoPath == "null"
BackupPath == "bak"

\* The fields a SQLiteDB is constructed with; _prevTransaction is the id of a
\* transaction of txns, 0 for the resolved promise it starts as.
HandleNew ==
  [inTransaction |-> FALSE, migrationBackupPath |-> NoPath,
   migrationError |-> NoErr, needVacuum |-> FALSE, open |-> TRUE,
   prevTransaction |-> 0]

\* A store file (present or not) with no connection open on it; cache tells
\* whether dbMetadataCache holds schemaInfo.create already.
DbNew(exists, version, data, cache) ==
  [active |-> FALSE,
   backup |-> [data |-> {}, exists |-> FALSE, version |-> 0],
   cache |-> cache,
   data |-> data,
   exists |-> exists,
   handle |-> [HandleNew EXCEPT !.open = FALSE],
   memOpens |-> 0,
   opens |-> 0,
   readonly |-> FALSE,
   version |-> version,
   wData |-> data,
   wVersion |-> version]

\* range that always starts at 0: every migration is run again.
range_FromZero(a, b) == [i \in 1..(IF b > 0 THEN b ELSE 0) |-> i - 1]

\* lodash range(a, b): a, a + 1, ..., b - 1.
range(a, b) == [i \in 1..(IF b > a THEN b - a ELSE 0) |-> a + i - 1]

\* An openDB(dbPath, schemaInfo, mode) call about to start, nMig being
\* schemaInfo.migrations.length.  data0, existed0 and v0 (history) keep the
\* store as it was before the call, err the error thrown inside
\* _initNewDB or _migrate, raised the error openDB rejected with.
CallNew(mode, nMig, exists, version, data) ==
  [data0 |-> data, err |-> NoErr, existed0 |-> exists, mode |-> mode,
   nMig |-> nMig, next |-> 1, outcome |-> "running", pc |-> "openDBRaw",
   raised |-> NoErr, txn |-> "none", userVersion |-> 0, v0 |-> version,
   versions |-> <<>>]

Tasks == {1, 2}

\* A caller that has not called yet: stack holds one frame per execTransaction
\* call of it that has not returned, the innermost last; ops counts the
\* statements its bodies have run; result is what its outermost call gave it;
\* calls and writes are history: the execTransaction calls it has made and
\* the effects its bodies have written.
TaskNew ==
  [calls |-> 0, ops |-> 0, result |-> "none", stack |-> <<>>, state |-> "idle",
   writes |-> {}]

CallIdle ==
  [CallNew("OPEN_CREATE", 0, FALSE, 0, {}) EXCEPT !.pc = "done", !.outcome = "idle"]

TxnIdle ==
  /\ tasks = [t \in Tasks |-> TaskNew]
  /\ txns = <<>>

\* A getWorker call not made: the map lists no worker.
WorkerIdle ==
  /\ docWorkerMap = [assignment |-> 0, workers |-> {}]
  /\ gw = [docStatus |-> 0, managed |-> FALSE, outcome |-> "idle", pc |-> "done",
           raised |-> "none", ret |-> 0]
  /\ gwLog = <<>>

\* No path open, no handle made.
RegIdle ==
  /\ openPaths = EmptyMap
  /\ handles = <<>>
  /\ regOp = [kind |-> "init"]

StoreIdle ==
  /\ RegIdle
  /\ WorkerIdle
  /\ db = DbNew(FALSE, 0, {}, FALSE)
  /\ call = CallIdle
  /\ sqlLog = <<>>
  /\ TxnIdle

(***************************************************************************)
(* The SQL engine behind exec and run.  A statement ends "ok", or "fail"   *)
(* (an error, the transaction state kept), or "abort" (an error on which   *)
(* the engine has rolled the open transaction back by itself).  ROLLBACK   *)
(* fails exactly when no transaction is active, BEGIN and VACUUM fail      *)
(* inside one, and a read-only connection refuses every write.             *)
(***************************************************************************)
sqlBegin(d) == [d EXCEPT !.active = TRUE, !.wData = d.data, !.wVersion = d.version]

sqlCommit(d) == [d EXCEPT !.active = FALSE, !.data = d.wData, !.version = d.wVersion]

sqlRollback(d) == [d EXCEPT !.active = FALSE, !.wData = d.data, !.wVersion = d.version]

\* A write that takes effect at once, inside a transaction or not.
sqlWrite_Autocommit(d, eff) ==
  [d EXCEPT !.data = @ \cup {eff}, !.wData = @ \cup {eff}]

sqlWrite(d, eff) ==
  IF d.active THEN [d EXCEPT !.wData = @ \cup {eff}]
  ELSE [d EXCEPT !.data = @ \cup {eff}, !.wData = @ \cup {eff}]

sqlSetVersion(d, v) ==
  IF d.active THEN [d EXCEPT !.wVersion = v]
  ELSE [d EXCEPT !.version = v, !.wVersion = v]

Outcomes(d, stmt) ==
  CASE stmt = "BEGIN" -> IF d.active THEN {"fail"} ELSE {"ok", "fail"}
    [] stmt = "COMMIT" -> IF d.active THEN {"ok", "fail", "abort"} ELSE {"fail"}
    [] stmt = "ROLLBACK" -> IF d.active THEN {"ok"} ELSE {"fail"}
    [] stmt = "VACUUM" -> IF d.active \/ d.readonly THEN {"fail"} ELSE {"ok", "fail"}
    [] stmt = "PRAGMA user_version" ->
         (IF d.readonly THEN {"fail"} ELSE {"ok", "fail"}) \cup
         (IF d.active THEN {"abort"} ELSE {})

\* exec(sql) / run(sql): the store after the statement ended with `out`.
exec(d, stmt, arg, out) ==
  IF out = "abort" THEN sqlRollback(d)
  ELSE IF out = "fail" THEN d
  ELSE CASE stmt = "BEGIN" -> sqlBegin(d)
         [] stmt = "COMMIT" -> sqlCommit(d)
         [] stmt = "ROLLBACK" -> sqlRollback(d)
         [] stmt = "VACUUM" -> d
         [] stmt = "PRAGMA user_version" -> sqlSetVersion(d, arg)

\* A DBFunc (schemaInfo.create, a migration) run on the handle: it writes
\* its effect and returns ("ok"), or writes and throws ("throw"), or a
\* statement of it fails ("fail", nothing written) or fails with the engine
\* rolling back ("abort").  On a read-only connection it cannot write.
CallbackOutcomes(d) ==
  (IF d.readonly THEN {"fail"} ELSE {"ok", "throw", "fail"}) \cup
  (IF d.active THEN {"abort"} ELSE {})

runCallback(d, eff, out) ==
  IF out \in {"ok", "throw"} THEN sqlWrite(d, eff)
  ELSE IF out = "abort" THEN sqlRollback(d)
  ELSE d

Logged(stmt, arg, out) == sqlLog' = Append(sqlLog, <<stmt, arg, out>>)

\* A TableData just constructed, with no fetch made.
TableIdle ==
  /\ td = TableDataNew("T", InitColTypes)
  /\ promises = <<>>
  /\ fnCalls = 0
  /\ op = [kind |-> "init"]
  /\ fresh = TRUE
  /\ steps = 0

TableInit == TableIdle /\ StoreIdle

(***************************************************************************)
(* SpecRows: a TableData to which only row additions and removals are      *)
(* dispatched.  A run is followed up to and including its first addition   *)
(* of a row id that is already resident.                                   *)
(***************************************************************************)
Apply(action) ==
  /\ fresh
  /\ td' = dispatchAction(td, action)
  /\ fresh' = (fresh /\ AddsFresh(td, action))
  /\ op' = [action |-> action, kind |-> "dispatch"]
  /\ UNCHANGED <<promises, fnCalls, steps>>
  /\ UNCHANGED <<sqlVars, txnVars, regVars, gwVars>>

AddRecord ==
  \E r \in RowIds, cv \in ColValuesSet({"a"}) :
    /\ numRecords(td) < MaxRows
    /\ Apply([colValues |-> cv, kind |-> "AddRecord", rowId |-> r])

BulkAddRecord ==
  \E rs \in RowIdSeqs :
    /\ numRecords(td) + Len(rs) <= MaxRows
    /\ \E cv \in BulkColValuesSet({"a"}, Len(rs)) :
         Apply([colValues |-> cv, kind |-> "BulkAddRecord", rowIds |-> rs])

RemoveRecord ==
  \E r \in RowIds : Apply([kind |-> "RemoveRecord", rowId |-> r])

BulkRemoveRecord ==
  \E rs \in RowIdSeqs : Apply([kind |-> "BulkRemoveRecord", rowIds |-> rs])

RowsNext == AddRecord \/ BulkAddRecord \/ RemoveRecord \/ BulkRemoveRecord

(***************************************************************************)
(* SpecTable: a TableData that receives every kind of action through       *)
(* receiveAction, and is loaded and partially loaded and unloaded.  A run  *)
(* applies up to MaxSteps operations.                                      *)
(***************************************************************************)
TRowIds == {1, 2}

\* Sequences of one or two of the row ids of TRowIds.
TRowIdSeqs == {<<r>> : r \in TRowIds} \cup {<<r, q>> : r \in TRowIds, q \in TRowIds}

TBulkColValues(n) == UNION {[S -> [1..n -> CellVals]] : S \in SUBSET ColIds}

\* Snapshots (row ids and column values) a load or a fetch delivers: up to two
\* rows with different ids, any of the columns given.
Snapshots(cs) ==
  {snap \in [cols : SUBSET cs, n : 0..2,
             rowIds : {<<>>} \cup {r \in TRowIdSeqs : Distinct(r)}] :
       snap.n = Len(snap.rowIds)}

SnapRowIds(snap) == snap.rowIds
SnapColValues(snap) == [c \in snap.cols |-> [k \in 1..snap.n |-> 1]]

Step == steps < MaxSteps /\ steps' = steps + 1

Receive(action) ==
  /\ Step
  /\ td' = receiveAction(td, action).table
  /\ op' = [action |-> action, kind |-> "receive",
            ret |-> receiveAction(td, action).ret]
  /\ UNCHANGED <<promises, fnCalls, fresh>>
  /\ UNCHANGED <<sqlVars, txnVars, regVars, gwVars>>

ReceiveAddRecord ==
  \E r \in TRowIds, cv \in ColValuesSet(ColIds) :
    Receive([colValues |-> cv, kind |-> "AddRecord", rowId |-> r])

ReceiveBulkAddRecord ==
  \E rs \in TRowIdSeqs : \E cv \in TBulkColValues(Len(rs)) :
    Receive([colValues |-> cv, kind |-> "BulkAddRecord", rowIds |-> rs])

ReceiveRemoveRecord ==
  \E r \in TRowIds : Receive([kind |-> "RemoveRecord", rowId |-> r])

ReceiveBulkRemoveRecord ==
  \E rs \in TRowIdSeqs : Receive([kind |-> "BulkRemoveRecord", rowIds |-> rs])

ReceiveUpdateRecord ==
  \E r \in TRowIds, cv \in ColValuesSet(ColIds) :
    Receive([colValues |-> cv, kind |-> "UpdateRecord", rowId |-> r])

ReceiveBulkUpdateRecord ==
  \E rs \in TRowIdSeqs : \E cv \in TBulkColValues(Len(rs)) :
    Receive([colValues |-> cv, kind |-> "BulkUpdateRecord", rowIds |-> rs])

ReceiveReplaceTableData ==
  \E snap \in Snapshots(ColIds) :
    Receive([colValues |-> SnapColValues(snap), kind |-> "ReplaceTableData",
             rowIds |-> SnapRowIds(snap)])

ReceiveAddColumn ==
  \E c \in ColIds, ty \in ColTypes :
    Receive([colId |-> c, colInfo |-> [type |-> ty], kind |-> "AddColumn"])

ReceiveRemoveColumn ==
  \E c \in ColIds : Receive([colId |-> c, kind |-> "RemoveColumn"])

ReceiveRenameColumn ==
  \E c \in ColIds, n \in ColIds :
    Receive([colId |-> c, kind |-> "RenameColumn", newColId |-> n])

ReceiveModifyColumn ==
  \E c \in ColIds, ty \in ColTypes \cup {"none"} :
    Receive([colId |-> c, colInfo |-> [type |-> ty], kind |-> "ModifyColumn"])

ReceiveRenameTable ==
  \E n \in {"T", "U"} :
    Receive([kind |-> "RenameTable", newTableId |-> n, tableId |-> td.tableId])

ReceiveAddTable == Receive([kind |-> "AddTable", tableId |-> td.tableId])

ReceiveRemoveTable == Receive([kind |-> "RemoveTable", tableId |-> td.tableId])

LoadData ==
  \E snap \in Snapshots(ColIds) :
    /\ Step
    /\ td' = loadData(td, SnapRowIds(snap), SnapColValues(snap))
    /\ op' = [kind |-> "loadData", ret |-> loadDataResult(td, SnapRowIds(snap))]
    /\ UNCHANGED <<promises, fnCalls, fresh>>
    /\ UNCHANGED <<sqlVars, txnVars, regVars, gwVars>>

LoadPartial ==
  \E snap \in Snapshots(ColIds) :
    /\ Step
    /\ td' = loadPartial(td, SnapRowIds(snap), SnapColValues(snap))
    /\ op' = [colValues |-> SnapColValues(snap), kind |-> "loadPartial",
              rowIds |-> SnapRowIds(snap)]
    /\ UNCHANGED <<promises, fnCalls, fresh>>
    /\ UNCHANGED <<sqlVars, txnVars, regVars, gwVars>>

UnloadPartial ==
  \E rs \in TRowIdSeqs :
    /\ Step
    /\ td' = unloadPartial(td, rs)
    /\ op' = [kind |-> "unloadPartial", n |-> numRecords(td), rowIds |-> rs]
    /\ UNCHANGED <<promises, fnCalls, fresh>>
    /\ UNCHANGED <<sqlVars, txnVars, regVars, gwVars>>

(***************************************************************************)
(* fetchData.  A promise is a record: fn is the state of the promise       *)
(* fetchFunc returned, data what it resolved with, state the state of the  *)
(* promise fetchData returns (the .then of the former), loadedWith the     *)
(* snapshot the .then callback handed to loadData, callers (history) the   *)
(* number of fetchData calls that returned it.  _fetchPromise is the id of *)
(* a promise, 0 for undefined.                                             *)
(***************************************************************************)
NoData == [cols |-> {}, n |-> 0 - 1, rowIds |-> <<>>]

\* fetchData without the test of _fetchPromise: every call fetches.
fetchData_NoGuard(t, ps, calls) ==
  [calls |-> calls + 1,
   promises |-> Append(ps, [callers |-> 1, data |-> NoData, fn |-> "pending",
                            loadedWith |-> NoData, state |-> "pending"]),
   ret |-> Len(ps) + 1,
   table |-> [t EXCEPT !.fetchPromise = Len(ps) + 1]]

\* fetchData(fetchFunc): the table, the promises and the number of calls of
\* fetchFunc afterwards, and the promise returned.
fetchData(t, ps, calls) ==
  IF t.fetchPromise = 0
  THEN [calls |-> calls + 1,
        promises |-> Append(ps, [callers |-> 1, data |-> NoData, fn |-> "pending",
                                 loadedWith |-> NoData, state |-> "pending"]),
        ret |-> Len(ps) + 1,
        table |-> [t EXCEPT !.fetchPromise = Len(ps) + 1]]
  ELSE [calls |-> calls,
        promises |-> [ps EXCEPT ![t.fetchPromise].callers = @ + 1],
        ret |-> t.fetchPromise,
        table |-> t]

\* The .then callback of fetchData, run with the data fetchFunc resolved with.
fetchThen(t, data) ==
  loadData([t EXCEPT !.fetchPromise = 0], SnapRowIds(data), SnapColValues(data))

FetchData ==
  /\ Step
  /\ td' = fetchData(td, promises, fnCalls).table
  /\ promises' = fetchData(td, promises, fnCalls).promises
  /\ fnCalls' = fetchData(td, promises, fnCalls).calls
  /\ op' = [kind |-> "fetchData", ret |-> fetchData(td, promises, fnCalls).ret]
  /\ UNCHANGED fresh
  /\ UNCHANGED <<sqlVars, txnVars, regVars, gwVars>>

\* The promise fetchFunc returned resolves with a snapshot.
FetchFnResolve ==
  \E p \in DOMAIN promises, snap \in Snapshots(ColIds) :
    /\ promises[p].fn = "pending"
    /\ promises' = [promises EXCEPT ![p].fn = "resolved", ![p].data = snap]
    /\ UNCHANGED <<td, fnCalls, op, fresh, steps>>
    /\ UNCHANGED <<sqlVars, txnVars, regVars, gwVars>>

\* The promise fetchFunc returned rejects: the .then callback never runs and
\* the promise fetchData returned rejects too.
FetchFnReject ==
  \E p \in DOMAIN promises :
    /\ promises[p].fn = "pending"
    /\ promises' = [promises EXCEPT ![p].fn = "rejected", ![p].state = "rejected"]
    /\ UNCHANGED <<td, fnCalls, op, fresh, steps>>
    /\ UNCHANGED <<sqlVars, txnVars, regVars, gwVars>>

\* The .then callback runs and the promise fetchData returned resolves.
FetchThen ==
  \E p \in DOMAIN promises :
    /\ promises[p].fn = "resolved"
    /\ promises[p].state = "pending"
    /\ td' = fetchThen(td, promises[p].data)
    /\ promises' = [promises EXCEPT ![p].state = "fulfilled",
                                    ![p].loadedWith = promises[p].data]
    /\ op' = [kind |-> "fetchThen"]
    /\ UNCHANGED <<fnCalls, fresh, steps>>
    /\ UNCHANGED <<sqlVars, txnVars, regVars, gwVars>>

\* An action with a tag outside the action vocabulary reaches receiveAction.
ReceiveUnknown ==
  \E k \in UnknownKinds :
    /\ Step
    /\ td' = receiveAction(td, [kind |-> k, tableId |-> td.tableId]).table
    /\ op' = [action |-> [kind |-> k, tableId |-> td.tableId], kind |-> "receive",
              ret |-> receiveAction(td, [kind |-> k, tableId |-> td.tableId]).ret,
              threw |-> receiveAction(td, [kind |-> k, tableId |-> td.tableId]).threw]
    /\ UNCHANGED <<promises, fnCalls, fresh>>
    /\ UNCHANGED <<sqlVars, txnVars, regVars, gwVars>>

FetchNext ==
  \/ FetchData \/ FetchFnResolve \/ FetchFnReject \/ FetchThen
  \/ LoadData \/ LoadPartial \/ ReceiveUnknown

TableNext ==
  \/ ReceiveAddRecord \/ ReceiveBulkAddRecord
  \/ ReceiveRemoveRecord \/ ReceiveBulkRemoveRecord
  \/ ReceiveUpdateRecord \/ ReceiveBulkUpdateRecord
  \/ ReceiveReplaceTableData
  \/ ReceiveAddColumn \/ ReceiveRemoveColumn
  \/ ReceiveRenameColumn \/ ReceiveModifyColumn
  \/ ReceiveRenameTable \/ ReceiveAddTable \/ ReceiveRemoveTable
  \/ LoadData \/ LoadPartial \/ UnloadPartial

(***************************************************************************)
(* SpecOpen: one openDB call on a store in any initial condition, one      *)
(* action per awaited step.                                                *)
(***************************************************************************)
getMigrationVersion(d) == IF d.active THEN d.wVersion ELSE d.version

isEmpty(d) == (IF d.active THEN d.wData ELSE d.data) = {}

close(d) == [d EXCEPT !.handle.open = FALSE, !.opens = @ - 1]

createBackupFile(d) ==
  [d EXCEPT !.backup = [data |-> d.data, exists |-> TRUE, version |-> d.version]]

\* The catch of _migrate without fse.remove(backupPath).
removeBackup_Keep(d) == d

removeBackup(d) == [d EXCEPT !.backup.exists = FALSE]

\* openDB's branching without the isEmpty test: every store at version 0 is
\* taken for a new one.
openDBBranch_NoEmptyTest(mode, userVersion, empty) ==
  IF userVersion = 0 THEN "initNewDB"
  ELSE IF mode = "CREATE_EXCL" THEN "EEXISTS"
  ELSE IF mode = "OPEN_READONLY" THEN "readonly"
  ELSE "migrate"

\* openDB's branching without the OPEN_READONLY test.
openDBBranch_NoReadonly(mode, userVersion, empty) ==
  IF userVersion = 0 /\ empty THEN "initNewDB"
  ELSE IF mode = "CREATE_EXCL" THEN "EEXISTS"
  ELSE "migrate"

\* openDB's branching without the CREATE_EXCL test.
openDBBranch_NoExcl(mode, userVersion, empty) ==
  IF userVersion = 0 /\ empty THEN "initNewDB"
  ELSE IF mode = "OPEN_READONLY" THEN "readonly"
  ELSE "migrate"

\* The branch openDB takes after reading user_version and isEmpty.
openDBBranch(mode, userVersion, empty) ==
  IF userVersion = 0 /\ empty THEN "initNewDB"
  ELSE IF mode = "CREATE_EXCL" THEN "EEXISTS"
  ELSE IF mode = "OPEN_READONLY" THEN "readonly"
  ELSE "migrate"

Raise(err) == [call EXCEPT !.pc = "done", !.outcome = "raised", !.raised = err]

Return == [call EXCEPT !.pc = "done", !.outcome = "returned"]

OpenDBRaw ==
  /\ call.pc = "openDBRaw"
  /\ IF call.mode \in {"OPEN_EXISTING", "OPEN_READONLY"} /\ ~db.exists
     THEN /\ db' = db
          /\ call' = Raise("SQLITE_CANTOPEN")
     ELSE /\ db' = [db EXCEPT !.exists = TRUE, !.handle = HandleNew,
                              !.opens = @ + 1,
                              !.readonly = (call.mode = "OPEN_READONLY")]
          /\ call' = [call EXCEPT !.pc = "openDB"]
  /\ UNCHANGED <<sqlLog, tdVars, regVars, txnVars, gwVars>>

OpenDB ==
  /\ call.pc = "openDB"
  /\ LET userVersion == getMigrationVersion(db)
         branch == openDBBranch(call.mode, userVersion, isEmpty(db))
         c == [call EXCEPT !.userVersion = userVersion]
     IN  CASE branch = "initNewDB" ->
                /\ db' = db
                /\ call' = [c EXCEPT !.pc = "begin", !.txn = "initNewDB"]
           [] branch = "EEXISTS" ->
                /\ db' = close(db)
                /\ call' = [c EXCEPT !.pc = "done", !.outcome = "raised",
                                     !.raised = "EEXISTS"]
           [] branch = "readonly" ->
                /\ db' = [db EXCEPT !.handle.migrationError =
                            IF userVersion < call.nMig THEN "needs migration" ELSE @]
                /\ call' = [c EXCEPT !.pc = "report"]
           [] branch = "migrate" ->
                /\ db' = db
                /\ call' = [c EXCEPT !.pc = "migrate"]
  /\ UNCHANGED <<sqlLog, tdVars, regVars, txnVars, gwVars>>

\* _migrate up to the backup.
Migrate ==
  /\ call.pc = "migrate"
  /\ IF call.userVersion < call.nMig
     THEN /\ db' = createBackupFile(db)
          /\ call' = [call EXCEPT !.versions = range(call.userVersion, call.nMig),
                                  !.next = 1, !.pc = "begin", !.txn = "migrate"]
          /\ Logged("backup", call.userVersion, "ok")
     ELSE /\ db' = db
          /\ call' = [call EXCEPT !.pc = "report"]
          /\ UNCHANGED sqlLog
  /\ UNCHANGED <<tdVars, regVars, txnVars, gwVars>>

\* execTransaction -> _execTransactionImpl: BEGIN, then the wrapper sets
\* _inTransaction before it calls the body.
ExecBegin ==
  /\ call.pc = "begin"
  /\ \E out \in Outcomes(db, "BEGIN") :
       /\ Logged("BEGIN", 0, out)
       /\ IF out = "ok"
          THEN /\ db' = [exec(db, "BEGIN", 0, out) EXCEPT !.handle.inTransaction = TRUE]
               /\ call' = [call EXCEPT !.pc = "body"]
          ELSE /\ db' = db
               /\ call' = [call EXCEPT !.err = "BEGIN failed", !.pc = "failed"]
  /\ UNCHANGED <<tdVars, regVars, txnVars, gwVars>>

\* The body of _initNewDB: schemaInfo.create(this).
BodyCreate ==
  /\ call.pc = "body"
  /\ call.txn = "initNewDB"
  /\ \E out \in CallbackOutcomes(db) :
       /\ Logged("create", 0, out)
       /\ IF out = "ok"
          THEN /\ db' = runCallback(db, Created, out)
               /\ call' = [call EXCEPT !.pc = "pragma"]
          ELSE /\ db' = [runCallback(db, Created, out) EXCEPT
                           !.handle.inTransaction = FALSE]
               /\ call' = [call EXCEPT !.err = "create threw", !.pc = "rollback"]
  /\ UNCHANGED <<tdVars, regVars, txnVars, gwVars>>

\* The body of _migrate's transaction: the next migration of versions.
BodyMigration ==
  /\ call.pc = "body"
  /\ call.txn = "migrate"
  /\ \E out \in CallbackOutcomes(db) :
       LET versionNum == call.versions[call.next]
       IN  /\ Logged("migration", versionNum, out)
           /\ IF out = "ok"
              THEN /\ db' = runCallback(db, Mig(versionNum), out)
                   /\ call' = IF call.next = Len(call.versions)
                              THEN [call EXCEPT !.pc = "pragma"]
                              ELSE [call EXCEPT !.next = @ + 1]
              ELSE /\ db' = [runCallback(db, Mig(versionNum), out) EXCEPT
                               !.handle.inTransaction = FALSE]
                   /\ call' = [call EXCEPT !.err = "migration threw",
                                           !.pc = "rollback"]
  /\ UNCHANGED <<tdVars, regVars, txnVars, gwVars>>

\* exec(`PRAGMA user_version = ${targetVer}`), the last statement of either
\* body; the wrapper's finally then clears _inTransaction.
BodyPragma ==
  /\ call.pc = "pragma"
  /\ \E out \in Outcomes(db, "PRAGMA user_version") :
       /\ Logged("PRAGMA user_version", call.nMig, out)
       /\ db' = [exec(db, "PRAGMA user_version", call.nMig, out) EXCEPT
                   !.handle.inTransaction = FALSE]
       /\ call' = IF out = "ok" THEN [call EXCEPT !.pc = "commit"]
                  ELSE [call EXCEPT !.err = "PRAGMA failed", !.pc = "rollback"]
  /\ UNCHANGED <<tdVars, regVars, txnVars, gwVars>>

ExecCommit ==
  /\ call.pc = "commit"
  /\ \E out \in Outcomes(db, "COMMIT") :
       /\ Logged("COMMIT", 0, out)
       /\ db' = exec(db, "COMMIT", 0, out)
       /\ call' = IF out = "ok" THEN [call EXCEPT !.pc = "committed"]
                  ELSE [call EXCEPT !.err = "COMMIT failed", !.pc = "rollback"]
  /\ UNCHANGED <<tdVars, regVars, txnVars, gwVars>>

\* The catch of _execTransactionImpl: ROLLBACK, its failure only logged, and
\* the original error thrown on.
ExecRollback ==
  /\ call.pc = "rollback"
  /\ \E out \in Outcomes(db, "ROLLBACK") :
       /\ Logged("ROLLBACK", 0, out)
       /\ db' = exec(db, "ROLLBACK", 0, out)
       /\ call' = [call EXCEPT !.pc = "failed"]
  /\ UNCHANGED <<tdVars, regVars, txnVars, gwVars>>

\* openDB after _initNewDB: the handle is returned, or the error of
\* _initNewDB is raised.
InitNewDBEnd ==
  /\ call.txn = "initNewDB"
  /\ call.pc \in {"committed", "failed"}
  /\ call' = IF call.pc = "committed" THEN Return ELSE Raise(call.err)
  /\ UNCHANGED <<db, sqlLog, tdVars, regVars, txnVars, gwVars>>

\* _migrate after its transaction: run("VACUUM"), inside the same try.
MigrateVacuum ==
  /\ call.txn = "migrate"
  /\ call.pc = "committed"
  /\ \E out \in Outcomes(db, "VACUUM") :
       /\ Logged("VACUUM", 0, out)
       /\ IF out = "ok"
          THEN /\ db' = [exec(db, "VACUUM", 0, out) EXCEPT
                           !.handle.migrationBackupPath = BackupPath]
               /\ call' = [call EXCEPT !.pc = "report"]
          ELSE /\ db' = db
               /\ call' = [call EXCEPT !.err = "VACUUM failed", !.pc = "failed"]
  /\ UNCHANGED <<tdVars, regVars, txnVars, gwVars>>

\* The catch of _migrate (the backup is removed and the error thrown on)
\* and the catch of openDB (the error is kept on the handle).
MigrateCatch ==
  /\ call.txn = "migrate"
  /\ call.pc = "failed"
  /\ db' = [removeBackup(db) EXCEPT !.handle.migrationError = call.err]
  /\ call' = [call EXCEPT !.pc = "report"]
  /\ Logged("removeBackup", call.userVersion, "ok")
  /\ UNCHANGED <<tdVars, regVars, txnVars, gwVars>>

\* _reportSchemaDiscrepancies: unless cached, _getExpectedMetadata opens an
\* in-memory store with schemaInfo.create, which may throw; nothing catches.
ReportSchemaDiscrepancies ==
  /\ call.pc = "report"
  /\ IF db.cache
     THEN /\ db' = db
          /\ call' = Return
     ELSE \E out \in {"ok", "throw"} :
            IF out = "ok"
            THEN /\ db' = [db EXCEPT !.cache = TRUE]
                 /\ call' = Return
            ELSE /\ db' = [db EXCEPT !.memOpens = @ + 1]
                 /\ call' = Raise("create threw")
  /\ UNCHANGED <<sqlLog, tdVars, regVars, txnVars, gwVars>>

OpenNext ==
  \/ OpenDBRaw \/ OpenDB \/ Migrate
  \/ ExecBegin \/ BodyCreate \/ BodyMigration \/ BodyPragma
  \/ ExecCommit \/ ExecRollback
  \/ InitNewDBEnd \/ MigrateVacuum \/ MigrateCatch
  \/ ReportSchemaDiscrepancies

\* Any store (absent, or present with any version, with or without tables),
\* any mode, any number of migrations, the metadata cache cold or warm.
OpenInit ==
  /\ TableIdle
  /\ RegIdle
  /\ WorkerIdle
  /\ TxnIdle
  /\ \E mode \in Modes, nMig \in 0..MaxMig, exists \in BOOLEAN,
        version \in 0..MaxVer, data \in {{}, {Old}}, cache \in BOOLEAN :
       /\ ~exists => (version = 0 /\ data = {})
       /\ db = DbNew(exists, version, data, cache)
       /\ call = CallNew(mode, nMig, exists, version, data)
  /\ sqlLog = <<>>

(***************************************************************************)
(* SpecTxn: callers of execTransaction and requestVacuum on one open       *)
(* handle.  Every caller makes one outermost call; a body writes, requests *)
(* a vacuum, calls execTransaction again, and returns or throws.  A step   *)
(* is what runs between two awaits.                                        *)
(***************************************************************************)
\* The effect of the k-th statement of caller t, run at nesting depth `depth`.
Wr(t, depth, k) == <<"write", 100 * t + 10 * depth + k>>

\* A transaction _execTransactionImpl has been called for.  state is its
\* position (waiting for _prevTransaction, body, commit, rollback) or how
\* its promise settled; body, err, nested, received, requested and writes
\* are history: how the body ended, the error thrown, the number of calls
\* that ran inline in it, what execTransaction gave its caller, the number of
\* requestVacuum calls made between its BEGIN and its COMMIT or ROLLBACK,
\* the effects written in it; behind (history) is the number of transactions
\* that had not settled when it was called for.
TxnNew(owner, prev) ==
  [behind |-> 0, body |-> "none", err |-> NoErr, nested |-> 0, owner |-> owner,
   prev |-> prev, received |-> "none", requested |-> 0, state |-> "waiting",
   writes |-> {}]

Settled(x) == txns[x].state \in {"resolved", "rejected"}

\* _execTransactionImpl without its first line: BEGIN is not held back.
prevSettled_NoAwait(x) == TRUE

\* await this._prevTransaction.catch(noop): the promise _prevTransaction held
\* when the transaction was called for has settled, either way.
prevSettled(x) == IF txns[x].prev = 0 THEN TRUE ELSE Settled(txns[x].prev)

Top(t) == tasks[t].stack[Len(tasks[t].stack)]

\* The body on top of t's stack is running.
InBody(t) ==
  /\ tasks[t].state = "running"
  /\ IF Top(t).kind = "inline" THEN TRUE ELSE txns[Top(t).txn].state = "body"

RECURSIVE enclosing(_, _)
\* The transaction of the innermost frame of stack[1..k] that began one, or 0.
enclosing(stack, k) ==
  IF k = 0 THEN 0
  ELSE IF stack[k].kind = "outer" THEN stack[k].txn
  ELSE enclosing(stack, k - 1)

Enclosing(t) == enclosing(tasks[t].stack, Len(tasks[t].stack))

\* execTransaction: if (this._inTransaction) return callback().
runsInline(d) == d.handle.inTransaction

Push(t, frame) ==
  [tasks EXCEPT ![t].calls = @ + 1, ![t].stack = Append(@, frame),
                ![t].state = "running"]

\* The call on top of t's stack gives `received` to its caller.
Pop(t, received) ==
  LET rest == SubSeq(tasks[t].stack, 1, Len(tasks[t].stack) - 1)
  IN  [tasks EXCEPT ![t].stack = rest,
                    ![t].state = IF rest = <<>> THEN "done" ELSE "running",
                    ![t].result = IF rest = <<>> THEN received ELSE @]

\* The finally of execTransaction: requestVacuum() if _needVacuum is set.
VacuumOutcomes(d) ==
  IF d.handle.needVacuum /\ ~d.handle.inTransaction
  THEN Outcomes(d, "VACUUM") ELSE {"none"}

finallyVacuum(d, vout) ==
  IF vout = "ok" THEN [d EXCEPT !.handle.needVacuum = FALSE] ELSE d

\* What the caller receives: an error thrown in the finally replaces the
\* transaction's result.
receivedAfter(result, vout) == IF vout = "fail" THEN "VACUUM failed" ELSE result

vacuumLog(x, vout) == IF vout = "none" THEN <<>> ELSE <<<<"VACUUM", x, vout>>>>

\* execTransaction(callback), from outside any body or from inside one.
TxnCall(t) ==
  /\ \/ tasks[t].state = "idle"
     \/ InBody(t) /\ tasks[t].calls < MaxCalls
  /\ IF runsInline(db)
     THEN /\ tasks' = Push(t, [kind |-> "inline", txn |-> 0])
          /\ txns' = IF Enclosing(t) # 0
                     THEN [txns EXCEPT ![Enclosing(t)].nested = @ + 1]
                     ELSE txns
          /\ db' = db
     ELSE /\ txns' = Append(txns,
                     [TxnNew(t, db.handle.prevTransaction) EXCEPT
                        !.behind = Cardinality({y \in DOMAIN txns : ~Settled(y)})])
          /\ db' = [db EXCEPT !.handle.prevTransaction = Len(txns) + 1]
          /\ tasks' = Push(t, [kind |-> "outer", txn |-> Len(txns) + 1])
  /\ UNCHANGED <<call, sqlLog, tdVars, regVars, gwVars>>

\* _execTransactionImpl once _prevTransaction has settled: BEGIN, and on
\* success the wrapper sets _inTransaction and enters the body.
TxnBegin(t) ==
  /\ tasks[t].state = "running"
  /\ Top(t).kind = "outer"
  /\ txns[Top(t).txn].state = "waiting"
  /\ prevSettled(Top(t).txn)
  /\ LET x == Top(t).txn
     IN  \E out \in Outcomes(db, "BEGIN") :
           IF out = "ok"
           THEN /\ db' = [exec(db, "BEGIN", x, out) EXCEPT
                            !.handle.inTransaction = TRUE]
                /\ txns' = [txns EXCEPT ![x].state = "body", ![x].body = "running"]
                /\ tasks' = tasks
                /\ sqlLog' = Append(sqlLog, <<"BEGIN", x, out>>)
           ELSE \E vout \in VacuumOutcomes(db) :
                  /\ db' = finallyVacuum(db, vout)
                  /\ txns' = [txns EXCEPT
                       ![x].state = "rejected", ![x].err = "BEGIN failed",
                       ![x].received = receivedAfter("BEGIN failed", vout)]
                  /\ tasks' = Pop(t, receivedAfter("BEGIN failed", vout))
                  /\ sqlLog' = Append(sqlLog, <<"BEGIN", x, out>>) \o vacuumLog(x, vout)
  /\ UNCHANGED <<call, tdVars, regVars, gwVars>>

\* A statement of the running body that writes.
TxnWrite(t) ==
  /\ InBody(t)
  /\ tasks[t].ops < MaxOps
  /\ LET eff == Wr(t, Len(tasks[t].stack), tasks[t].ops + 1)
         x == Enclosing(t)
     IN  /\ db' = sqlWrite(db, eff)
         /\ txns' = IF x # 0 THEN [txns EXCEPT ![x].writes = @ \cup {eff}] ELSE txns
  /\ tasks' = [tasks EXCEPT
       ![t].ops = @ + 1,
       ![t].writes = @ \cup {Wr(t, Len(tasks[t].stack), tasks[t].ops + 1)}]
  /\ UNCHANGED <<call, sqlLog, tdVars, regVars, gwVars>>

\* The transactions that have begun and not settled (at most one).
InProgress == {x \in DOMAIN txns : txns[x].state \in {"body", "commit", "rollback"}}

\* requestVacuum() called by the running body, or by a caller that is not
\* in any execTransaction call.
TxnRequestVacuum(t) ==
  /\ IF tasks[t].state = "idle" THEN TRUE ELSE InBody(t)
  /\ tasks[t].ops < MaxOps
  /\ IF db.handle.inTransaction
     THEN /\ db' = [db EXCEPT !.handle.needVacuum = TRUE]
          /\ UNCHANGED sqlLog
     ELSE \E out \in Outcomes(db, "VACUUM") :
            /\ db' = IF out = "ok" THEN [db EXCEPT !.handle.needVacuum = FALSE] ELSE db
            /\ sqlLog' = Append(sqlLog, <<"VACUUM", 0, out>>)
  /\ tasks' = [tasks EXCEPT ![t].ops = @ + 1]
  /\ txns' = [x \in DOMAIN txns |->
               IF x \in InProgress /\ db.active
               THEN [txns[x] EXCEPT !.requested = @ + 1] ELSE txns[x]]
  /\ UNCHANGED <<call, tdVars, regVars, gwVars>>

\* The running body returns or throws.  For a body that runs inline that is
\* the result of its execTransaction call; for the body of a transaction
\* the wrapper's finally clears _inTransaction first.
TxnBodyEnd(t) ==
  /\ InBody(t)
  /\ \E how \in {"ok", "threw"} :
       IF Top(t).kind = "inline"
       THEN /\ tasks' = Pop(t, IF how = "ok" THEN "ok" ELSE "body error")
            /\ UNCHANGED <<db, txns>>
       ELSE /\ db' = [db EXCEPT !.handle.inTransaction = FALSE]
            /\ txns' = [txns EXCEPT
                 ![Top(t).txn].body = how,
                 ![Top(t).txn].err = IF how = "ok" THEN @ ELSE "body error",
                 ![Top(t).txn].state = IF how = "ok" THEN "commit" ELSE "rollback"]
            /\ tasks' = tasks
  /\ UNCHANGED <<call, sqlLog, tdVars, regVars, gwVars>>

\* _execTransactionImpl after a body that returned: COMMIT; then, the
\* promise resolved, the finally of execTransaction.
TxnCommit(t) ==
  /\ tasks[t].state = "running"
  /\ Top(t).kind = "outer"
  /\ txns[Top(t).txn].state = "commit"
  /\ LET x == Top(t).txn
     IN  \E out \in Outcomes(db, "COMMIT") :
           IF out = "ok"
           THEN \E vout \in VacuumOutcomes(exec(db, "COMMIT", x, out)) :
                  /\ db' = finallyVacuum(exec(db, "COMMIT", x, out), vout)
                  /\ txns' = [txns EXCEPT ![x].state = "resolved",
                                          ![x].received = receivedAfter("ok", vout)]
                  /\ tasks' = Pop(t, receivedAfter("ok", vout))
                  /\ sqlLog' = Append(sqlLog, <<"COMMIT", x, out>>) \o vacuumLog(x, vout)
           ELSE /\ db' = exec(db, "COMMIT", x, out)
                /\ txns' = [txns EXCEPT ![x].state = "rollback",
                                        ![x].err = "COMMIT failed"]
                /\ tasks' = tasks
                /\ sqlLog' = Append(sqlLog, <<"COMMIT", x, out>>)
  /\ UNCHANGED <<call, tdVars, regVars, gwVars>>

\* The catch of _execTransactionImpl: ROLLBACK, whose failure is only
\* logged, and the error thrown on; then the finally of execTransaction.
TxnRollback(t) ==
  /\ tasks[t].state = "running"
  /\ Top(t).kind = "outer"
  /\ txns[Top(t).txn].state = "rollback"
  /\ LET x == Top(t).txn
     IN  \E out \in Outcomes(db, "ROLLBACK") :
         \E vout \in VacuumOutcomes(exec(db, "ROLLBACK", x, out)) :
           /\ db' = finallyVacuum(exec(db, "ROLLBACK", x, out), vout)
           /\ txns' = [txns EXCEPT ![x].state = "rejected",
                                   ![x].received = receivedAfter(txns[x].err, vout)]
           /\ tasks' = Pop(t, receivedAfter(txns[x].err, vout))
           /\ sqlLog' = Append(sqlLog, <<"ROLLBACK", x, out>>) \o vacuumLog(x, vout)
  /\ UNCHANGED <<call, tdVars, regVars, gwVars>>

TxnNext ==
  \E t \in Tasks :
    \/ TxnCall(t) \/ TxnBegin(t) \/ TxnWrite(t) \/ TxnRequestVacuum(t)
    \/ TxnBodyEnd(t) \/ TxnCommit(t) \/ TxnRollback(t)

\* An open handle on a store that holds tables, no transaction made yet.
TxnInit ==
  /\ TableIdle
  /\ RegIdle
  /\ WorkerIdle
  /\ db = [DbNew(TRUE, 0, {Old}, TRUE) EXCEPT !.handle = HandleNew, !.opens = 1]
  /\ call = CallIdle
  /\ sqlLog = <<>>
  /\ TxnIdle

(***************************************************************************)
(* SpecRegistry: openDBRaw and close calls on two paths, and the           *)
(* process-wide _openPaths.  A run makes up to MaxHandles openDBRaw calls. *)
(***************************************************************************)
Paths == {"p", "q"}

\* _addOpens that stores the new count whatever it is.
addOpens_KeepZero(m, dbPath, delta) ==
  MapSet(m, dbPath, (IF MapHas(m, dbPath) THEN m[dbPath] ELSE 0) + delta)

\* _addOpens(dbPath, delta): _openPaths afterwards.
addOpens(m, dbPath, delta) ==
  LET newCount == (IF MapHas(m, dbPath) THEN m[dbPath] ELSE 0) + delta
  IN  IF newCount > 0 THEN MapSet(m, dbPath, newCount) ELSE MapDelete(m, dbPath)

\* openDBRaw(dbPath, mode): new sqlite3.Database calls back with an error, or
\* without one, and then the path is counted and a handle returned.
RegOpen ==
  \E p \in Paths, out \in {"ok", "fail"} :
    /\ Len(handles) < MaxHandles
    /\ IF out = "ok"
       THEN /\ openPaths' = addOpens(openPaths, p, 1)
            /\ handles' = Append(handles, [open |-> TRUE, path |-> p])
       ELSE UNCHANGED <<openPaths, handles>>
    /\ regOp' = [kind |-> "openDBRaw", outcome |-> out, path |-> p]
    /\ UNCHANGED <<tdVars, sqlVars, txnVars, gwVars>>

\* db.close(): the engine's close calls back with an error (always so for a
\* handle closed before) or without one, and then the path is counted down.
RegClose ==
  \E h \in DOMAIN handles, out \in {"ok", "fail"} :
    /\ ~handles[h].open => out = "fail"
    /\ IF out = "ok"
       THEN /\ openPaths' = addOpens(openPaths, handles[h].path, 0 - 1)
            /\ handles' = [handles EXCEPT ![h].open = FALSE]
       ELSE UNCHANGED <<openPaths, handles>>
    /\ regOp' = [handle |-> h, kind |-> "close", outcome |-> out]
    /\ UNCHANGED <<tdVars, sqlVars, txnVars, gwVars>>

RegNext == RegOpen \/ RegClose

(***************************************************************************)
(* SpecWorker: one getWorker(docWorkerMap, assignmentId, urlPath) call     *)
(* (src/app/server/lib/AppEndpoint.ts), one action per await.  The doc     *)
(* worker map lists workers by id and holds the worker the document is     *)
(* assigned to (0 for none).                                               *)
(***************************************************************************)
Workers == 1..MaxWorkers

\* What fetch(fullUrl, config) settles with: a response, by its status, or an
\* error, by its type ('system' for ECONNREFUSED and the like,
\* 'request-timeout' for the timeout of the config).
FetchStatuses == {200, 403, 404, 500}
FetchErrorTypes == {"system", "request-timeout", "other"}

\* What resp.json() of a 404 response settles with: the body of a missing
\* worker, a JSON body with another message, a JSON body without a message,
\* the JSON value null, or an error (the body is no JSON; reading it failed
\* with an error of type 'system').
Bodies == {"not present", "other message", "no message", "null",
           "invalid-json", "system"}

\* IDocWorkerMap.assignDocWorker(assignmentId): the worker the document is
\* assigned to, the document being assigned to w when it has none.
assignDocWorker(m, w) ==
  IF m.assignment # 0 THEN m ELSE [m EXCEPT !.assignment = w]

\* IDocWorkerMap.removeWorker(workerId): the worker is de-listed and the
\* assignments to it are dropped.
removeWorker(m, workerId) ==
  [assignment |-> IF m.assignment = workerId THEN 0 ELSE m.assignment,
   workers |-> m.workers \ {workerId}]

\* resp.ok
respOk(status) == status >= 200 /\ status < 300

\* The test on the parsed body of a 404.
\* !(body && body.message && body.message === 'document worker not present')
bodyIsMissingWorker(body) == body = "not present"

\* The catch of getWorker with the test of workersAreManaged left out.
rethrows_AnySystemError(managed, type) == ~(type = "system")

\* The catch of getWorker: whether the error caught is thrown on;
\* type is e.type, "none" for an ApiError, which has no type.
rethrows(managed, type) == managed \/ ~(type = "system")

GwLogged(event) == gwLog' = Append(gwLog, event)

GwRaise(err) == [gw EXCEPT !.docStatus = 0, !.outcome = "raised", !.pc = "done",
                            !.raised = err]

\* docStatus = await docWorkerMap.assignDocWorker(assignmentId); it rejects
\* when no worker is listed.
GwAssign ==
  /\ gw.pc = "assign"
  /\ IF docWorkerMap.assignment = 0 /\ docWorkerMap.workers = {}
     THEN /\ gw' = GwRaise("no worker available")
          /\ UNCHANGED <<docWorkerMap, gwLog>>
     ELSE \E w \in docWorkerMap.workers \cup {docWorkerMap.assignment} :
            /\ w # 0
            /\ docWorkerMap' = assignDocWorker(docWorkerMap, w)
            /\ gw' = [gw EXCEPT !.docStatus = docWorkerMap'.assignment,
                                !.pc = "fetch"]
            /\ GwLogged(<<"assign", docWorkerMap'.assignment, "">>)
  /\ UNCHANGED <<tdVars, sqlVars, txnVars, regVars>>

\* await fetch(fullUrl, configWithTimeout) settles with a response: an ok
\* one is returned, a 404 goes on to its body, any other throws an ApiError,
\* which the catch throws on.
GwFetchResponse ==
  /\ gw.pc = "fetch"
  /\ \E status \in FetchStatuses :
       IF respOk(status)
       THEN /\ gw' = [gw EXCEPT !.outcome = "returned", !.pc = "done",
                                !.ret = gw.docStatus]
            /\ GwLogged(<<"fetch", gw.docStatus, "ok">>)
       ELSE IF status # 404
       THEN /\ gw' = IF rethrows(gw.managed, "none")
                     THEN GwRaise(IF status = 403 THEN "ApiError 403" ELSE "ApiError")
                     ELSE [gw EXCEPT !.pc = "remove"]
            /\ GwLogged(<<"fetch", gw.docStatus,
                          IF status = 403 THEN "403" ELSE "not ok">>)
       ELSE /\ gw' = [gw EXCEPT !.pc = "json"]
            /\ UNCHANGED gwLog
  /\ UNCHANGED docWorkerMap
  /\ UNCHANGED <<tdVars, sqlVars, txnVars, regVars>>

\* await fetch(...) rejects with an error of some type: the catch throws it
\* on, or lets the loop go on to the removal.
GwFetchError ==
  /\ gw.pc = "fetch"
  /\ \E type \in FetchErrorTypes :
       /\ gw' = IF rethrows(gw.managed, type) THEN GwRaise("FetchError")
                ELSE [gw EXCEPT !.pc = "remove"]
       /\ GwLogged(<<"fetch", gw.docStatus, "error " \o type>>)
  /\ UNCHANGED docWorkerMap
  /\ UNCHANGED <<tdVars, sqlVars, txnVars, regVars>>

\* body = await resp.json() of a 404: an error of it, and a body other than
\* that of a missing worker, throw an ApiError, which the catch throws on.
GwJson ==
  /\ gw.pc = "json"
  /\ \E body \in Bodies :
       IF body \in {"invalid-json", "system"} \/ ~bodyIsMissingWorker(body)
       THEN /\ gw' = IF rethrows(gw.managed, "none") THEN GwRaise("ApiError 404")
                     ELSE [gw EXCEPT !.pc = "remove"]
            /\ GwLogged(<<"fetch", gw.docStatus, "404 " \o body>>)
       ELSE /\ gw' = [gw EXCEPT !.pc = "remove"]
            /\ GwLogged(<<"fetch", gw.docStatus, "404 " \o body>>)
  /\ UNCHANGED docWorkerMap
  /\ UNCHANGED <<tdVars, sqlVars, txnVars, regVars>>

\* await docWorkerMap.removeWorker(docStatus.docWorker.id); docStatus =
\* undefined; and the loop starts over.
GwRemove ==
  /\ gw.pc = "remove"
  /\ docWorkerMap' = removeWorker(docWorkerMap, gw.docStatus)
  /\ gw' = [gw EXCEPT !.docStatus = 0, !.pc = "assign"]
  /\ GwLogged(<<"remove", gw.docStatus, "">>)
  /\ UNCHANGED <<tdVars, sqlVars, txnVars, regVars>>

WorkerNext == GwAssign \/ GwFetchResponse \/ GwFetchError \/ GwJson \/ GwRemove

\* Any set of listed workers, the document assigned to one of them or to
\* none, GRIST_MANAGED_WORKERS set or not.
WorkerInit ==
  /\ TableIdle
  /\ RegIdle
  /\ db = DbNew(FALSE, 0, {}, FALSE)
  /\ call = CallIdle
  /\ sqlLog = <<>>
  /\ TxnIdle
  /\ \E ws \in SUBSET Workers, a \in {0} \cup Workers, managed \in BOOLEAN :
       /\ a # 0 => a \in ws
       /\ docWorkerMap = [assignment |-> a, workers |-> ws]
       /\ gw = [docStatus |-> 0, managed |-> managed, outcome |-> "running",
                pc |-> "assign", raised |-> "none", ret |-> 0]
  /\ gwLog = <<>>

vars == <<tdVars, sqlVars, txnVars, regVars, gwVars>>

SpecRows == TableInit /\ [][RowsNext]_vars

SpecTable == TableInit /\ [][TableNext]_vars

SpecFetch == TableInit /\ [][FetchNext]_vars

SpecOpen == OpenInit /\ [][OpenNext]_vars

SpecTxn == TxnInit /\ [][TxnNext]_vars

SpecRegistry == TableInit /\ [][RegNext]_vars

SpecWorker == WorkerInit /\ [][WorkerNext]_vars

(***************************************************************************)
(* Index consistency.                                                      *)
(***************************************************************************)
\* rowMap[rowIdCol[i]] = i at every storage position i, and every column's
\* value sequence is as long as the row-id sequence.
IndexConsistent(t) ==
  /\ \A i \in 0..(Len(t.rowIdCol) - 1) :
        MapHas(t.rowMap, ArrGet(t.rowIdCol, i)) /\ t.rowMap[ArrGet(t.rowIdCol, i)] = i
  /\ \A k \in 1..Len(t.colArray) : Len(t.colArray[k].values) = Len(t.rowIdCol)

\* C1 as stated: after every sequence of AddRecord, BulkAddRecord, RemoveRecord
\* and BulkRemoveRecord actions the row index is the inverse of the row-id
\* column and every column is as long as the row-id column.
C1_AnySequence == IndexConsistent(td)

\* C1, amended: the same, for the sequences in which every added row id is not
\* resident when it is added (and the ids of one bulk addition are pairwise
\* different).
C1_IndexConsistent == fresh => IndexConsistent(td)

\* C1's case: a removal has moved the last row into a freed position.
C1_Witness ==
  /\ fresh
  /\ op.kind = "dispatch"
  /\ op.action.kind \in {"RemoveRecord", "BulkRemoveRecord"}
  /\ Len(td.rowIdCol) = 2
  /\ td.rowIdCol[1] > td.rowIdCol[2]

(***************************************************************************)
(* receiveAction on unloaded and loaded tables.                            *)
(***************************************************************************)
\* C6: receiveAction of a row-data action (AddRecord, BulkAddRecord,
\* RemoveRecord, BulkRemoveRecord, UpdateRecord, BulkUpdateRecord,
\* ReplaceTableData) on a table that is not loaded returns false and leaves
\* the row ids, the column values, the row index and the load flag as they
\* were; on a loaded table, and for a schema action (AddColumn, RemoveColumn,
\* RenameColumn, ModifyColumn, AddTable, RemoveTable, RenameTable) in either
\* state, it returns true and the table is what the action's handler makes.
C6_ReceiveAction ==
  [][op'.kind = "receive" =>
       IF ~td.isLoaded /\ op'.action.kind \in
            {"AddRecord", "BulkAddRecord", "RemoveRecord", "BulkRemoveRecord",
             "UpdateRecord", "BulkUpdateRecord", "ReplaceTableData"}
       THEN /\ op'.ret = FALSE
            /\ td'.rowIdCol = td.rowIdCol
            /\ td'.colArray = td.colArray
            /\ td'.rowMap = td.rowMap
            /\ td'.isLoaded = td.isLoaded
       ELSE /\ op'.action.kind \in RowDataKinds \cup
                 {"AddColumn", "RemoveColumn", "RenameColumn", "ModifyColumn",
                  "AddTable", "RemoveTable", "RenameTable"}
            /\ op'.ret = TRUE
            /\ td' = dispatchAction(td, op'.action)]_vars

\* C6's case: a row-data action was skipped by a table that holds rows but is
\* no longer loaded (a RemoveTable reached it).
C6_Witness ==
  /\ op.kind = "receive"
  /\ op.action.kind \in RowDataKinds
  /\ op.ret = FALSE
  /\ ~td.isLoaded
  /\ Len(td.rowIdCol) > 0

(***************************************************************************)
(* Concurrent fetches.                                                     *)
(***************************************************************************)
\* The table holds exactly the snapshot: its row ids, its values for the
\* columns it gives and defaults for the others, indexed, and loaded.
HoldsSnapshot(t, snap) ==
  /\ t.isLoaded
  /\ t.rowIdCol = snap.rowIds
  /\ \A k \in 1..Len(t.colArray) :
        t.colArray[k].values =
          IF t.colArray[k].colId \in snap.cols
          THEN [i \in 1..snap.n |-> 1]
          ELSE [i \in 1..snap.n |-> t.colArray[k].defl]
  /\ DOMAIN t.rowMap = {snap.rowIds[i] : i \in 1..snap.n}
  /\ \A i \in 1..snap.n : t.rowMap[snap.rowIds[i]] = i - 1

\* C3: a fetchData call made while an earlier call's promise is pending does
\* not invoke fetchFunc again and returns that same promise, the call that
\* finds no fetch in progress invokes fetchFunc exactly once, and the
\* returned promise resolves only in the step in which loadData has run with
\* the snapshot fetchFunc delivered.
C3_SharedFetch ==
  [][/\ (op'.kind = "fetchData" /\ steps' # steps) =>
          IF td.fetchPromise # 0 /\ promises[td.fetchPromise].state = "pending"
          THEN /\ fnCalls' = fnCalls
               /\ Len(promises') = Len(promises)
               /\ op'.ret = td.fetchPromise
          ELSE td.fetchPromise = 0 => fnCalls' = fnCalls + 1
      /\ \A p \in DOMAIN promises :
           (promises[p].state = "pending" /\ promises'[p].state = "fulfilled") =>
              /\ promises[p].fn = "resolved"
              /\ promises'[p].loadedWith = promises[p].data
              /\ HoldsSnapshot(td', promises[p].data)
              /\ td'.fetchPromise = 0]_vars

\* C3's case: two fetchData calls were made while the fetch was pending, one
\* fetchFunc call served both, and the shared promise has resolved with the
\* table loaded from a snapshot of two rows.
C3_Witness ==
  /\ Len(promises) = 1
  /\ promises[1].state = "fulfilled"
  /\ promises[1].callers >= 2
  /\ fnCalls = 1
  /\ Len(td.rowIdCol) = 2

(***************************************************************************)
(* openDB: migration, backup, read-only.                                   *)
(***************************************************************************)
Done == call.outcome \in {"returned", "raised"}

\* The entries of sqlLog for one kind of statement or callback.
LogOf(stmt) == SelectSeq(sqlLog, LAMBDA e : e[1] = stmt)

\* Some migration function threw.
MigrationThrew ==
  \E i \in DOMAIN sqlLog : sqlLog[i][1] = "migration" /\ sqlLog[i][3] # "ok"

\* The store file holds what it held before the open.
StoreUnchanged ==
  /\ db.version = call.v0
  /\ db.data = call.data0

\* C2: if a migration step throws during openDB of an existing read-write
\* store whose version is behind the target, then once openDB has finished
\* the stored version is the pre-open one, no migration's effect is in the
\* store (those of the steps before the failing one included), and the backup
\* file made for the attempt is gone.
C2_FailedMigrationUndone ==
  (/\ Done
   /\ call.existed0
   /\ call.mode \in {"OPEN_CREATE", "OPEN_EXISTING"}
   /\ call.v0 < call.nMig
   /\ MigrationThrew)
  => (/\ StoreUnchanged
      /\ ~db.active
      /\ \A k \in 0..MaxMig : Mig(k) \notin db.data
      /\ ~db.backup.exists)

\* C2's case: the first migration ran and wrote, the second one wrote and
\* threw, and the ROLLBACK was carried out.
C2_Witness ==
  /\ Done
  /\ \E i \in DOMAIN sqlLog :
       /\ i + 2 <= Len(sqlLog)
       /\ sqlLog[i] = <<"migration", 1, "ok">>
       /\ sqlLog[i + 1] = <<"migration", 2, "throw">>
       /\ sqlLog[i + 2] = <<"ROLLBACK", 0, "ok">>

\* C7: when openDB migrates a read-write store from version v to the target
\* n (v < n, v = 0 with tables included), the migrations run are v, v+1, ...
\* in this order, each once and each only after the one before it succeeded,
\* none below v and none at n or above; all of them run after the one BEGIN
\* and before any COMMIT or ROLLBACK; user_version is set, to n, only after
\* migration n-1 succeeded; and a store that ends at version n holds exactly
\* the effects of migrations v..n-1 on top of what it held.
C7_MigrationOrder ==
  call.txn = "migrate" =>
    LET migs == LogOf("migration")
        v == call.v0
        n == call.nMig
    IN  /\ v < n
        /\ Len(migs) <= n - v
        /\ \A j \in 1..Len(migs) : migs[j][2] = v + j - 1
        /\ \A j \in 1..(Len(migs) - 1) : migs[j][3] = "ok"
        /\ Len(LogOf("BEGIN")) <= 1
        /\ \A i \in DOMAIN sqlLog :
             sqlLog[i][1] \in {"migration", "PRAGMA user_version"} =>
               /\ \E b \in 1..(i - 1) : sqlLog[b] = <<"BEGIN", 0, "ok">>
               /\ \A c \in 1..(i - 1) : sqlLog[c][1] \notin {"COMMIT", "ROLLBACK"}
        /\ \A i \in DOMAIN sqlLog :
             sqlLog[i][1] = "PRAGMA user_version" =>
               /\ sqlLog[i][2] = n
               /\ Len(migs) = n - v
               /\ migs[n - v] = <<"migration", n - 1, "ok">>
               /\ \A c \in 1..(i - 1) : sqlLog[c][1] # "PRAGMA user_version"
        /\ getMigrationVersion(db) \in {v, n}
        /\ getMigrationVersion(db) = n => LogOf("PRAGMA user_version") # <<>>
        /\ db.version = n =>
             db.data = call.data0 \cup {Mig(k) : k \in v..(n - 1)}

\* C7's case: a store at version 1 has been migrated to version 3 by
\* migrations 1 and 2.
C7_Witness ==
  /\ call.outcome = "returned"
  /\ call.v0 = 1
  /\ call.nMig = 3
  /\ db.version = 3
  /\ db.data = {Old, Mig(1), Mig(2)}
  /\ db.handle.migrationError = NoErr

\* The migration transaction of this open has been committed.
MigrationCommitted ==
  /\ call.txn = "migrate"
  /\ \E i \in DOMAIN sqlLog : sqlLog[i] = <<"COMMIT", 0, "ok">>

\* C8: the backup copy of the store is complete (and holds the pre-open
\* content) before the first migration runs; once the migration has
\* succeeded the backup file exists from then on, and when openDB has
\* finished the handle's migrationBackupPath names it.
C8_BackupKept ==
  /\ \A i \in DOMAIN sqlLog :
       sqlLog[i][1] = "migration" =>
         /\ \E b \in 1..(i - 1) : sqlLog[b][1] = "backup"
         /\ db.backup.version = call.v0
         /\ db.backup.data = call.data0
  /\ MigrationCommitted => db.backup.exists
  /\ (MigrationCommitted /\ Done) => db.handle.migrationBackupPath = BackupPath

\* The migration transaction (BEGIN, the migrations, the version update,
\* COMMIT) threw.
MigrationTransactionThrew ==
  /\ call.txn = "migrate"
  /\ call.err \in {"BEGIN failed", "migration threw", "PRAGMA failed", "COMMIT failed"}

\* C9: when the migration transaction throws during openDB, openDB does not
\* raise: it returns an open handle whose migrationError is the error thrown
\* and whose migrationBackupPath is null.
C9_OpensAnyway ==
  (Done /\ MigrationTransactionThrew) =>
    /\ call.outcome = "returned"
    /\ db.handle.open
    /\ db.handle.migrationError = call.err
    /\ db.handle.migrationBackupPath = NoPath

\* A read-only open leaves the store as it was and attempts no migration
\* and no backup.
ReadOnlyUntouched ==
  /\ StoreUnchanged
  /\ ~db.backup.exists
  /\ \A i \in DOMAIN sqlLog : sqlLog[i][1] \notin {"migration", "backup"}

Issued(stmt, x) == Len(SelectSeq(sqlLog, LAMBDA e : e[1] = stmt /\ e[2] = x))

\* C4: an execTransaction call made from inside the body of an
\* execTransaction runs its body inline (no call below the outermost one of
\* a caller begins a transaction); a transaction with calls nested in it
\* issues exactly one BEGIN and exactly one COMMIT or ROLLBACK; and once a
\* caller's outermost call has finished, the writes of its outer body and of
\* all bodies nested in it are all committed or all rolled back.
C4_NestedRunsInline ==
  /\ \A t \in Tasks : \A i \in 2..Len(tasks[t].stack) :
       tasks[t].stack[i].kind = "inline"
  /\ \A x \in DOMAIN txns :
       (Settled(x) /\ txns[x].nested > 0) =>
         /\ Issued("BEGIN", x) = 1
         /\ Issued("COMMIT", x) + Issued("ROLLBACK", x) = 1
  /\ \A t \in Tasks :
       tasks[t].state = "done" =>
         \/ tasks[t].writes \subseteq db.data
         \/ tasks[t].writes \cap db.data = {}

\* C5: for an outermost execTransaction that has finished, COMMIT was issued
\* if and only if the body returned and ROLLBACK if and only if the body
\* threw; and when the body threw the caller received the body's error.
C5_CommitIffBodySucceeds ==
  \A x \in DOMAIN txns :
    Settled(x) =>
      /\ (Issued("COMMIT", x) > 0) <=> (txns[x].body = "ok")
      /\ (Issued("ROLLBACK", x) > 0) <=> (txns[x].body = "threw")
      /\ txns[x].body = "threw" => txns[x].received = "body error"

(***************************************************************************)
(* openDB: exclusive creation, new stores.                                 *)
(***************************************************************************)
\* The open on an existing store ended with EEXISTS, the store as it was,
\* the connection closed and unregistered.
FailedExists ==
  /\ call.outcome = "raised"
  /\ call.raised = "EEXISTS"
  /\ StoreUnchanged
  /\ ~db.handle.open
  /\ db.opens = 0

CreateThrew ==
  \E i \in DOMAIN sqlLog : sqlLog[i][1] = "create" /\ sqlLog[i][3] # "ok"

\* C12: an open of a store at version 0 without tables runs no migration and
\* makes no backup; when it has returned, create and the PRAGMA that sets
\* user_version to migrations.length ran in one transaction and the store
\* holds what create made at that version; if create threw, the store still
\* has version 0 and no tables, and the open raises with no transaction left.
C12_InitNewDB ==
  (call.v0 = 0 /\ call.data0 = {}) =>
    /\ \A i \in DOMAIN sqlLog : sqlLog[i][1] \notin {"migration", "backup"}
    /\ ~db.backup.exists
    /\ call.outcome = "returned" =>
         /\ db.version = call.nMig
         /\ db.data = {Created}
         /\ ~db.active
         /\ sqlLog = << <<"BEGIN", 0, "ok">>, <<"create", 0, "ok">>,
                        <<"PRAGMA user_version", call.nMig, "ok">>,
                        <<"COMMIT", 0, "ok">> >>
    /\ CreateThrew =>
         /\ StoreUnchanged
         /\ Done => (call.outcome = "raised" /\ ~db.active)

\* C12's case: the open of a new store with two migrations declared has
\* returned.
C12_Witness ==
  /\ call.v0 = 0
  /\ call.data0 = {}
  /\ call.nMig = 2
  /\ call.outcome = "returned"
  /\ db.version = 2
  /\ db.data = {Created}

(***************************************************************************)
(* requestVacuum.                                                          *)
(***************************************************************************)
RECURSIVE openAfter(_, _)
\* Whether a transaction begun by a BEGIN among the first i statements of
\* log has not yet been ended by its COMMIT or ROLLBACK.
openAfter(log, i) ==
  IF i = 0 THEN FALSE
  ELSE LET e == log[i]
       IN  IF e[1] = "BEGIN" /\ e[3] = "ok" THEN TRUE
           ELSE IF e[1] = "COMMIT" /\ e[3] # "fail" THEN FALSE
           ELSE IF e[1] = "ROLLBACK" /\ e[3] = "ok" THEN FALSE
           ELSE openAfter(log, i - 1)

\* C13: VACUUM is never executed between a BEGIN and its matching COMMIT or
\* ROLLBACK; a requestVacuum made while a transaction is in progress only
\* records the request, so no VACUUM statement, succeeding or failing, is
\* issued by it.
C13_NoVacuumInTransaction ==
  \A i \in DOMAIN sqlLog :
    sqlLog[i][1] = "VACUUM" => ~openAfter(sqlLog, i - 1)

\* C14: when requestVacuum was called between the BEGIN and the COMMIT or
\* ROLLBACK of a transaction, exactly one VACUUM has been executed for that
\* transaction once it has finished, committed or rolled back; and the
\* request is cleared: a transaction during which no requestVacuum was
\* called finishes without a VACUUM.
C14_DeferredVacuumOnce ==
  \A x \in DOMAIN txns :
    Settled(x) =>
      Issued("VACUUM", x) = (IF txns[x].requested > 0 THEN 1 ELSE 0)

(***************************************************************************)
(* Column storage.                                                         *)
(***************************************************************************)
\* A JavaScript array without holes.
Dense(a) == \A i \in 1..Len(a) : a[i] # Undef

\* C15: after any sequence of loadData, loadPartial, unloadPartial and
\* actions of every kind, every column's value sequence is dense and as long
\* as the row-id sequence (hence as every other column's).
C15_ColumnsAligned ==
  /\ Dense(td.rowIdCol)
  /\ \A k \in 1..Len(td.colArray) :
       /\ Dense(td.colArray[k].values)
       /\ Len(td.colArray[k].values) = Len(td.rowIdCol)

(***************************************************************************)
(* fetchData after an earlier fetch.                                       *)
(***************************************************************************)
\* No promise returned by fetchData is still pending.
NoFetchInFlight == \A p \in DOMAIN promises : promises[p].state # "pending"

\* C16: a fetchData call made while no fetch is in flight, be it the first
\* call or a call after an earlier fetch succeeded or failed, invokes
\* fetchFunc once; and when the promise of a fetch resolves, the table holds
\* the snapshot fetched and isLoaded is true.
C16_FetchAgain ==
  [][/\ (op'.kind = "fetchData" /\ steps' # steps /\ NoFetchInFlight) =>
          fnCalls' = fnCalls + 1
      /\ \A p \in DOMAIN promises :
           (promises[p].state = "pending" /\ promises'[p].state = "fulfilled") =>
              /\ HoldsSnapshot(td', promises[p].data)
              /\ td'.isLoaded]_vars

(***************************************************************************)
(* Removal reordering.                                                     *)
(***************************************************************************)
\* The array a with the element at position p (0-based) replaced by the last
\* element and the last position dropped.
SwapRemove(a, p) ==
  [i \in 1..(Len(a) - 1) |-> IF i = p + 1 THEN a[Len(a)] ELSE a[i]]

\* The storage position (0-based) of a resident row id.
PositionOf(t, rowId) == CHOOSE p \in 0..(Len(t.rowIdCol) - 1) : t.rowIdCol[p + 1] = rowId

StrictlyAscending(a) == \A i \in 1..(Len(a) - 1) : a[i] < a[i + 1]

UpdVals == {1, 2}

UpdBulkColValues(n) == UNION {[S -> [1..n -> UpdVals]] : S \in SUBSET ColIds}

RECURSIVE updateEach(_, _, _, _)
\* UpdateRecord actions for rowIds[i], rowIds[i+1], ... applied one after
\* another, each with the i-th value of every column of colValues.
updateEach(t, rowIds, colValues, i) ==
  IF i > Len(rowIds) THEN t
  ELSE updateEach(
         onUpdateRecord(t, rowIds[i], [c \in DOMAIN colValues |-> colValues[c][i]]),
         rowIds, colValues, i + 1)

\* C18: on a loaded table, one BulkUpdateRecord over row ids r1..rk yields
\* the table that the k UpdateRecord actions applied in index order yield,
\* whether or not the row ids and column ids are in the table and also when
\* a row id is repeated.
C18_BulkUpdateIsEachUpdate ==
  td.isLoaded =>
    \A rs \in TRowIdSeqs : \A cv \in UpdBulkColValues(Len(rs)) :
      onBulkUpdateRecord(td, rs, cv) = updateEach(td, rs, cv, 1)

\* C18's case: a BulkUpdateRecord over the two resident rows has set
\* column a of both.
C18_Witness ==
  /\ td.isLoaded
  /\ op.kind = "receive"
  /\ op.action.kind = "BulkUpdateRecord"
  /\ op.action.rowIds = <<1, 2>>
  /\ "a" \in DOMAIN op.action.colValues
  /\ td.rowIdCol = <<2, 1>>
  /\ td.colArray[1].colId = "a"
  /\ td.colArray[1].values = <<1, 1>>

(***************************************************************************)
(* Export and reload.                                                      *)
(***************************************************************************)
RECURSIVE colTypeSeq(_, _)
\* The column-type map of t for the column ids cs, as the sequence of
\* <<colId, type>> the constructor takes.
colTypeSeq(t, cs) ==
  IF cs = {} THEN <<>>
  ELSE LET c == CHOOSE x \in cs : TRUE
       IN  <<<<c, getColType(t, c)>>>> \o colTypeSeq(t, cs \ {c})

\* A fresh TableData with t's column-type map, loaded with t's export.
Reloaded(t) ==
  loadData(TableDataNew(t.tableId, colTypeSeq(t, getColIds(t) \ {"id"})),
           getTableDataAction(t).rowIds, getTableDataAction(t).colValues)

RowIdSet(t) == {t.rowIdCol[i] : i \in 1..Len(t.rowIdCol)}

\* The export of t carries the row ids apart from a value map without 'id',
\* and the reloaded table has t's row ids and t's cell values.
RoundTrips(t) ==
  /\ getTableDataAction(t).rowIds = t.rowIdCol
  /\ "id" \notin DOMAIN getTableDataAction(t).colValues
  /\ RowIdSet(Reloaded(t)) = RowIdSet(t)
  /\ \A r \in RowIdSet(t) : \A c \in getColIds(t) :
       getValue(Reloaded(t), r, c) = getValue(t, r, c)

\* C19 as stated: every table state reachable by actions round-trips.
C19_AnyReachableState == RoundTrips(td)

\* _rowMap gives every resident row id its storage position.
RowsIndexed(t) ==
  \A i \in 0..(Len(t.rowIdCol) - 1) :
    MapHas(t.rowMap, ArrGet(t.rowIdCol, i)) /\ t.rowMap[ArrGet(t.rowIdCol, i)] = i

\* C19, amended: a table state reachable by actions in which the row index
\* gives every resident row id its storage position (no row id was added
\* while already resident) round-trips.
C19_RoundTrip == RowsIndexed(td) => RoundTrips(td)

\* C19's case: a table that received AddColumn b and AddRecord 2 after being
\* loaded with row 1, and whose export reloads to the same two rows.
C19_Witness ==
  /\ op.kind = "receive"
  /\ op.action.kind = "AddRecord"
  /\ td.rowIdCol = <<1, 2>>
  /\ getColIds(td) = {"id", "a", "b"}
  /\ getValue(td, 2, "b") = 1
  /\ Reloaded(td).rowIdCol = <<1, 2>>
  /\ getValue(Reloaded(td), 2, "b") = 1

(***************************************************************************)
(* loadData replaces.                                                      *)
(***************************************************************************)
\* C20: loadData of a snapshot on a table in any state leaves exactly the
\* snapshot: the resident row ids are the snapshot's in its order, every
\* declared column holds the snapshot's values or, when the snapshot has
\* none for it, the default of its type once per row, the row index has the
\* snapshot's row ids and no other at their positions, and isLoaded is true.
C20_LoadDataReplaces ==
  \A snap \in Snapshots(ColIds) :
    LET s == loadData(td, SnapRowIds(snap), SnapColValues(snap))
    IN  /\ s.isLoaded
        /\ s.rowIdCol = SnapRowIds(snap)
        /\ Len(s.colArray) = Len(td.colArray)
        /\ \A k \in 1..Len(s.colArray) :
             s.colArray[k].values =
               IF s.colArray[k].colId \in DOMAIN SnapColValues(snap)
               THEN SnapColValues(snap)[s.colArray[k].colId]
               ELSE [i \in 1..Len(SnapRowIds(snap)) |->
                       getDefaultForType(s.colArray[k].type)]
        /\ DOMAIN s.rowMap = {SnapRowIds(snap)[i] : i \in 1..Len(SnapRowIds(snap))}
        /\ \A i \in 1..Len(SnapRowIds(snap)) : s.rowMap[SnapRowIds(snap)[i]] = i - 1

\* C20's case: loadData has just replaced the single row 1 of a loaded table
\* by the row 2, column a at its default.
C20_Witness ==
  /\ op.kind = "loadData"
  /\ op.ret = <<1>>
  /\ td.isLoaded
  /\ td.rowIdCol = <<2>>
  /\ DOMAIN td.rowMap = {2}
  /\ td.colArray[1].values = <<0>>

(***************************************************************************)
(* A removed table.                                                        *)
(***************************************************************************)
\* C21: after receiveAction of RemoveTable isLoaded is false; a table that is
\* not loaded becomes loaded only by loadData, loadPartial or the completion
\* of a fetch; while it is not loaded, receiveAction of a row-data action
\* returns false and changes nothing, and receiveAction of a schema action
\* returns true and applies the action's handler.
C21_RemovedTable ==
  [][/\ (op'.kind = "receive" /\ steps' # steps
          /\ op'.action.kind = "RemoveTable") => ~td'.isLoaded
     /\ (~td.isLoaded /\ td'.isLoaded) =>
          op'.kind \in {"loadData", "loadPartial", "fetchThen"}
     /\ (~td.isLoaded /\ op'.kind = "receive" /\ steps' # steps) =>
          IF op'.action.kind \in RowDataKinds
          THEN op'.ret = FALSE /\ td' = td
          ELSE /\ op'.action.kind \in SchemaKinds
               /\ op'.ret = TRUE
               /\ td' = dispatchAction(td, op'.action)]_vars

\* C21's case: a table that was loaded with rows and then removed has had a
\* column added by a schema action while its rows stayed as they were.
C21_Witness ==
  /\ op.kind = "receive"
  /\ op.action.kind = "AddColumn"
  /\ op.ret = TRUE
  /\ ~td.isLoaded
  /\ Len(td.rowIdCol) > 0
  /\ Len(td.colArray) = 2
  /\ td.colArray[2].colId = op.action.colId

\* C22: while a table that received RemoveTable has not been loaded again,
\* getRowIds and getRecords return no rows and getValue and getRecord return
\* undefined for every row id.
C22_ReadsAsGone ==
  ~td.isLoaded =>
    /\ getRowIds(td) = <<>>
    /\ getRecords(td) = <<>>
    /\ \A r \in TRowIds :
         /\ ~getRecord(td, r).defined
         /\ \A c \in getColIds(td) : getValue(td, r, c) = Undef

(***************************************************************************)
(* Absent rows and columns.                                                *)
(***************************************************************************)
\* The row ids and column ids asked for: those of the model and one more of
\* each that no action of the model names.
AskRowIds == TRowIds \cup {MaxRowId + 1}
AskColIds == ColIds \cup {"id", "c"}

\* No storage position holds the row id.
AbsentRow(t, rowId) == ~Resident(t, rowId)

\* No column object, in _columns or in _colArray, has the column id.
AbsentCol(t, colId) ==
  /\ ~MapHas(t.columns, colId)
  /\ \A k \in 1..Len(t.colArray) : t.colArray[k].colId # colId

\* The reads of an absent row or column return undefined, findRow 0.
AbsentReads(t) ==
  /\ \A r \in AskRowIds, c \in AskColIds :
        (AbsentRow(t, r) \/ AbsentCol(t, c)) => getValue(t, r, c) = Undef
  /\ \A r \in AskRowIds : AbsentRow(t, r) => ~getRecord(t, r).defined
  /\ \A c \in AskColIds :
        AbsentCol(t, c) =>
          /\ ~MapHas(t.columns, c)
          /\ getColValues(t, c) = Undef
          /\ getColType(t, c) = Undef
          /\ \A n \in 0..2 : getDistinctValues(t, c, n) = Undef
          /\ \A v \in CellVals \cup {0} : findRow(t, c, v) = 0

\* filterRecords by one property that names an absent column does not throw.
AbsentFilter(t) ==
  \A c \in AskColIds, v \in CellVals \cup {0} :
    AbsentCol(t, c) => ~filterRecords(t, <<<<c, v>>>>).threw

\* UpdateRecord and RemoveRecord of an absent row change nothing.
AbsentWrites(t) ==
  \A r \in AskRowIds :
    AbsentRow(t, r) =>
      /\ onRemoveRecord(t, r) = t
      /\ \A cv \in ColValuesSet(ColIds) : onUpdateRecord(t, r, cv) = t

\* C23: an operation that names a row id or a column id the table does not
\* have returns the absent result and does not throw: getValue, getRecord,
\* getColValues, getColType and getDistinctValues return undefined, findRow
\* returns 0, filterRecords by an absent column returns without throwing, and
\* UpdateRecord and RemoveRecord of an absent row leave the table unchanged.
C23_AbsentIsExplicit == AbsentReads(td) /\ AbsentFilter(td) /\ AbsentWrites(td)

(***************************************************************************)
(* Schema actions that do not apply.                                       *)
(***************************************************************************)
\* The table after receiveAction of the action, and after receiving it twice.
Once(t, action) == receiveAction(t, action).table
Twice(t, action) == Once(Once(t, action), action)

\* C24: AddColumn of a column id the table has, and RemoveColumn,
\* RenameColumn and ModifyColumn of a column id it does not have, are
\* received without error and leave the whole table as it was; and receiving
\* the same AddColumn, RemoveColumn or RenameColumn twice in a row leaves the
\* table that receiving it once leaves.
C24_SchemaNoOps ==
  \A c \in AskColIds :
    /\ \A ty \in ColTypes :
         LET add == [colId |-> c, colInfo |-> [type |-> ty], kind |-> "AddColumn"]
             modify == [colId |-> c, colInfo |-> [type |-> ty], kind |-> "ModifyColumn"]
         IN  /\ receiveAction(td, add).ret
             /\ MapHas(td.columns, c) => Once(td, add) = td
             /\ Twice(td, add) = Once(td, add)
             /\ ~MapHas(td.columns, c) =>
                  receiveAction(td, modify).ret /\ Once(td, modify) = td
    /\ LET remove == [colId |-> c, kind |-> "RemoveColumn"]
       IN  /\ receiveAction(td, remove).ret
           /\ ~MapHas(td.columns, c) => Once(td, remove) = td
           /\ Twice(td, remove) = Once(td, remove)
    /\ \A n \in AskColIds :
         LET rename == [colId |-> c, kind |-> "RenameColumn", newColId |-> n]
         IN  /\ receiveAction(td, rename).ret
             /\ ~MapHas(td.columns, c) => Once(td, rename) = td
             /\ Twice(td, rename) = Once(td, rename)

\* C24's case: AddColumn of the existing column a with the type Text was
\* received by a table with rows, and a is still its only column, of type Int.
C24_Witness ==
  /\ op.kind = "receive"
  /\ op.action.kind = "AddColumn"
  /\ op.action.colId = "a"
  /\ op.action.colInfo.type = "Text"
  /\ MapHas(td.columns, "a")
  /\ Len(td.colArray) = 1
  /\ td.colArray[1].type = "Int"
  /\ Len(td.rowIdCol) > 0

(***************************************************************************)
(* Tags outside the action vocabulary.                                     *)
(***************************************************************************)
\* C25: receiveAction of an action whose tag is none of the action kinds, by
\* a table loaded or not, raises and leaves the table as it was.
C25_UnknownTagIsFatal ==
  [][(op'.kind = "receive" /\ steps' # steps
      /\ op'.action.kind \notin RowDataKinds \cup SchemaKinds) =>
        op'.threw /\ td' = td]_vars

\* The same for the loaded table only.
C25_LoadedOnly ==
  [][(op'.kind = "receive" /\ steps' # steps /\ td.isLoaded
      /\ op'.action.kind \notin RowDataKinds \cup SchemaKinds) =>
        op'.threw /\ td' = td]_vars

(***************************************************************************)
(* The registry of open paths.                                             *)
(***************************************************************************)
\* The handles opened on the path and not closed.
OpenHandles(p) == {h \in DOMAIN handles : handles[h].path = p /\ handles[h].open}

\* C26: after every openDBRaw and close the registry's count of a path is
\* the number of handles opened on it and not closed, a path with no open
\* handle has no entry (so no count is zero or negative), and an openDBRaw of
\* a path that is open already, when the engine opens it, returns a handle.
C26_RegistryCounts ==
  [][/\ \A p \in Paths :
          IF OpenHandles(p)' = {} THEN ~MapHas(openPaths', p)
          ELSE MapHas(openPaths', p) /\ openPaths'[p] = Cardinality(OpenHandles(p)')
     /\ \A p \in DOMAIN openPaths' : openPaths'[p] > 0
     /\ (regOp'.kind = "openDBRaw" /\ regOp'.outcome = "ok") =>
          /\ Len(handles') = Len(handles) + 1
          /\ handles'[Len(handles')] = [open |-> TRUE, path |-> regOp'.path]]_vars

\* C26's case: path p is open twice, the second open made while the first
\* handle was open, and path q was opened and closed and has no entry.
C26_Witness ==
  /\ Len(handles) = 3
  /\ Cardinality(OpenHandles("p")) = 2
  /\ openPaths = [x \in {"p"} |-> 2]
  /\ \E h \in DOMAIN handles : handles[h].path = "q" /\ ~handles[h].open
  /\ regOp.kind = "close"

(***************************************************************************)
(* What loadData returns.                                                  *)
(***************************************************************************)
\* C27: loadData returns the row ids that were resident just before the
\* call, in the order they were stored in, whatever it replaces them by.
C27_LoadDataReturnsOld ==
  [][(op'.kind = "loadData" /\ steps' # steps) => op'.ret = getRowIds(td)]_vars

\* C27's case: loadData has returned the rows 2, 1 in their storage order and
\* the table now holds the row 1 only.
C27_Witness ==
  /\ op.kind = "loadData"
  /\ op.ret = <<2, 1>>
  /\ td.rowIdCol = <<1>>

(***************************************************************************)
(* Transactions of one handle run one after another.                       *)
(***************************************************************************)
\* The statement at position k of the log ends the transaction y: its COMMIT
\* that succeeded, or its ROLLBACK.
Finishes(k, y) ==
  /\ sqlLog[k][2] = y
  /\ sqlLog[k] = <<"COMMIT", y, "ok">> \/ sqlLog[k][1] = "ROLLBACK"

\* C28: when BEGIN is issued for a transaction, every transaction that has
\* begun before it has issued the COMMIT or ROLLBACK that ends it, and every
\* transaction called for before it has issued its BEGIN already: the
\* transactions begin one after the other has finished, in call order.
C28_OneAtATime ==
  \A i \in DOMAIN sqlLog :
    sqlLog[i][1] = "BEGIN" =>
      /\ \A j \in 1..(i - 1) :
           sqlLog[j][1] = "BEGIN" =>
             /\ sqlLog[j][2] < sqlLog[i][2]
             /\ sqlLog[j][3] = "ok" =>
                  \E k \in (j + 1)..(i - 1) : Finishes(k, sqlLog[j][2])
      /\ \A y \in 1..(sqlLog[i][2] - 1) :
           \E j \in 1..(i - 1) : sqlLog[j][1] = "BEGIN" /\ sqlLog[j][2] = y

\* C28's case: the second transaction was called for while the first had not
\* settled, the first threw and was rolled back, and the second has begun.
C28_Witness ==
  /\ Len(txns) = 2
  /\ txns[2].behind = 1
  /\ txns[1].state = "rejected"
  /\ txns[1].body = "threw"
  /\ txns[2].state = "body"
  /\ \E i \in DOMAIN sqlLog : sqlLog[i] = <<"BEGIN", 2, "ok">>

(***************************************************************************)
(* What a resolved call has written.                                       *)
(***************************************************************************)
\* C29: once a caller's execTransaction call has resolved successfully and
\* no transaction is in progress, everything its body wrote is in the store:
\* no rollback of another caller's transaction has undone it.
C29_ResolvedIsCommitted ==
  \A t \in Tasks :
    (tasks[t].state = "done" /\ tasks[t].result = "ok"
     /\ InProgress = {} /\ ~db.active) =>
       tasks[t].writes \subseteq db.data

(***************************************************************************)
(* Every call that has run its body is settled by a COMMIT or a ROLLBACK.  *)
(***************************************************************************)
\* The body of caller t's outermost execTransaction call ends in this step.
OutermostBodyEnds(t) ==
  /\ InBody(t)
  /\ Len(tasks[t].stack) = 1
  /\ IF Top(t).kind = "inline" THEN tasks'[t].state = "done"
     ELSE txns'[Top(t).txn].state \in {"commit", "rollback"}

\* C30: when the body of a caller's execTransaction call has terminated, a
\* transaction is in progress whose COMMIT or ROLLBACK is still to be issued
\* and settles what the body did; and when the body of a transaction has
\* terminated the in-transaction flag is false.
C30_BodyEndIsSettled ==
  [][\A t \in Tasks :
       OutermostBodyEnds(t) =>
         /\ InProgress' # {}
         /\ Top(t).kind = "outer" => ~db'.handle.inTransaction]_vars


(***************************************************************************)
(* The row index as the inverse of the row-id column.                      *)
(***************************************************************************)
\* C31: after any sequence of additions and removals (here: those in which
\* every added row id is not resident when it is added) the key set of rowMap
\* is the set of resident row ids, so that its size is the row count, and
\* rowIdCol[rowMap[id]] = id for every key id.
C31_RowMapIsInverse ==
  fresh =>
    /\ DOMAIN td.rowMap = RowIdSet(td)
    /\ Cardinality(DOMAIN td.rowMap) = Len(td.rowIdCol)
    /\ \A id \in DOMAIN td.rowMap : ArrGet(td.rowIdCol, td.rowMap[id]) = id


(***************************************************************************)
(* Schema actions and stored values.                                       *)
(***************************************************************************)
\* C32: RenameColumn(old, new) received by a table that has column old, for
\* every pair old, new: afterwards the lookup has new, getColValues(new) is
\* the value sequence that was stored under old, the export has the column
\* under new and (for new other than old) not under old, and the row ids and
\* every column other than old and new are as before.
C32_RenameRekeys ==
  [][(/\ op'.kind = "receive"
      /\ op'.action.kind = "RenameColumn"
      /\ MapHas(td.columns, op'.action.colId))
     => LET old == op'.action.colId
            new == op'.action.newColId
        IN  /\ MapHas(td'.columns, new)
            /\ getColValues(td', new) = getColValues(td, old)
            /\ new \in DOMAIN getTableDataAction(td').colValues
            /\ old # new => ~MapHas(td'.columns, old)
            /\ old # new => old \notin DOMAIN getTableDataAction(td').colValues
            /\ td'.rowIdCol = td.rowIdCol
            /\ \A c \in (DOMAIN td.columns) \ {old, new} :
                 /\ MapHas(td'.columns, c)
                 /\ getColValues(td', c) = getColValues(td, c)]_vars


\* The table after it has received ModifyColumn(colId, {type}), type "none"
\* standing for an info without a type.
Modified(t, colId, type) ==
  receiveAction(t, [colId |-> colId, colInfo |-> [type |-> type],
                    kind |-> "ModifyColumn"]).table

\* Nothing but type tags and defaults differs between t and m.
SameButTypes(t, m) ==
  /\ m.rowIdCol = t.rowIdCol
  /\ m.rowMap = t.rowMap
  /\ m.columns = t.columns
  /\ m.isLoaded = t.isLoaded
  /\ m.tableId = t.tableId
  /\ Len(m.colArray) = Len(t.colArray)
  /\ \A k \in 1..Len(t.colArray) :
       /\ m.colArray[k].colId = t.colArray[k].colId
       /\ m.colArray[k].values = t.colArray[k].values

\* C33: at every reachable table and for every column id and type,
\* ModifyColumn leaves every stored value (and the row ids, the index and the
\* lookup) as it was, touches the type and default of no other column, and
\* changes nothing at all when the info has no type; when the table has the
\* column, the column has the new type afterwards, and a row then added
\* without a value for the column reads the new type's default there.
C33_ModifyColumnTypeOnly ==
  \A c \in ColIds : \A ty \in ColTypes \cup {"none"} :
    LET m == Modified(td, c, ty)
    IN  /\ SameButTypes(td, m)
        /\ \A k \in 1..Len(td.colArray) :
             (~MapHas(td.columns, c) \/ td.columns[c] # k)
               => m.colArray[k] = td.colArray[k]
        /\ ty = "none" => m = td
        /\ (ty # "none" /\ MapHas(td.columns, c)) =>
             /\ getColType(m, c) = ty
             /\ \A r \in TRowIds \ DOMAIN td.rowMap :
                  \A cv \in ColValuesSet(ColIds \ {c}) :
                    getValue(onAddRecord(m, r, cv), r, c) = getDefaultForType(ty)

\* C33's case: column a, of type Int when the table was made, holds the value 1
\* loaded for row 1 and the default of Text for row 2, which was added without
\* a value for a after ModifyColumn made the column Text.
C33_Witness ==
  /\ op.kind = "receive"
  /\ op.action.kind = "AddRecord"
  /\ "a" \notin DOMAIN op.action.colValues
  /\ Len(td.colArray) = 1
  /\ MapHas(td.columns, "a")
  /\ getColType(td, "a") = "Text"
  /\ td.rowIdCol = <<1, 2>>
  /\ getValue(td, 1, "a") = 1
  /\ getValue(td, 2, "a") = getDefaultForType("Text")


\* The table after it has received AddColumn(colId, {type}).
ColumnAdded(t, colId, type) ==
  receiveAction(t, [colId |-> colId, colInfo |-> [type |-> type],
                    kind |-> "AddColumn"]).table

\* C34: at every reachable table, loaded or not, AddColumn of a column id the
\* lookup does not have makes a column of the given type whose value sequence
\* has one entry per resident row, each the type's default, and leaves the row
\* ids, the index and every column the lookup had as they were; and AddRecord
\* of a row id not in the index, with no value for a column of the lookup,
\* stores that column's default for the new row.
C34_AddColumnBackfills ==
  /\ \A c \in ColIds \ DOMAIN td.columns : \A ty \in ColTypes :
       LET m == ColumnAdded(td, c, ty)
       IN  /\ MapHas(m.columns, c)
           /\ getColType(m, c) = ty
           /\ getColValues(m, c) =
                [k \in 1..Len(td.rowIdCol) |-> getDefaultForType(ty)]
           /\ m.rowIdCol = td.rowIdCol
           /\ m.rowMap = td.rowMap
           /\ m.isLoaded = td.isLoaded
           /\ \A c2 \in DOMAIN td.columns :
                /\ MapHas(m.columns, c2)
                /\ getColValues(m, c2) = getColValues(td, c2)
                /\ getColType(m, c2) = getColType(td, c2)
  /\ \A c \in ColIds \cap DOMAIN td.columns :
       \A r \in TRowIds \ DOMAIN td.rowMap :
         \A cv \in ColValuesSet(ColIds \ {c}) :
           getValue(onAddRecord(td, r, cv), r, c) = RefColData(td, td.columns[c]).defl

\* C34's case: a table that is not loaded and holds a row has received
\* AddColumn b (of type Text), and b holds the default of Text for that row.
C34_Witness ==
  /\ op.kind = "receive"
  /\ op.action.kind = "AddColumn"
  /\ op.action.colId = "b"
  /\ op.action.colInfo.type = "Text"
  /\ op.ret
  /\ ~td.isLoaded
  /\ Len(td.rowIdCol) = 1
  /\ MapHas(td.columns, "b")
  /\ getColValues(td, "b") = <<getDefaultForType("Text")>>


(***************************************************************************)
(* Partial load and unload.                                                *)
(***************************************************************************)
RECURSIVE removeEach(_, _, _)
\* The table after RemoveRecord of rowIds[i], rowIds[i + 1], ... one by one.
removeEach(t, rowIds, i) ==
  IF i > Len(rowIds) THEN t
  ELSE removeEach(dispatchAction(t, [kind |-> "RemoveRecord", rowId |-> rowIds[i]]),
                  rowIds, i + 1)

\* Every row id of the index of t that is not among rowIds is in the index of
\* s and reads the same value in every column.
OthersKept(t, s, rowIds) ==
  \A r \in (DOMAIN t.rowMap) \ ({rowIds[i] : i \in 1..Len(rowIds)} \cup {Undef}) :
    /\ MapHas(s.rowMap, r)
    /\ \A c \in DOMAIN t.columns : getValue(s, r, c) = getValue(t, r, c)

\* C35: on a table loaded or not, a loadPartial step leaves the table that
\* BulkAddRecord with the same row ids and values leaves, with isLoaded true,
\* and an unloadPartial step leaves the table that RemoveRecord of its row
\* ids one by one leaves; the rows outside the given ids keep their values.
C35_PartialIsBulk ==
  [][/\ op'.kind = "loadPartial" =>
          /\ td' = [dispatchAction(td, [colValues |-> op'.colValues,
                                        kind |-> "BulkAddRecord",
                                        rowIds |-> op'.rowIds])
                      EXCEPT !.isLoaded = TRUE]
          /\ OthersKept(td, td', op'.rowIds)
     /\ op'.kind = "unloadPartial" =>
          /\ td' = removeEach(td, op'.rowIds, 1)
          /\ td'.isLoaded = td.isLoaded
          /\ OthersKept(td, td', op'.rowIds)]_vars

\* C35's case: a table that held rows 1 and 2 and was not loaded has been
\* partially unloaded of row 1; row 2 has moved to the freed position.
C35_Witness ==
  /\ op.kind = "unloadPartial"
  /\ op.rowIds = <<1>>
  /\ op.n = 2
  /\ ~td.isLoaded
  /\ td.rowIdCol = <<2>>
  /\ td.rowMap = [x \in {2} |-> 0]

\* A table not yet loaded has been partially loaded with rows 1 and 2.
C35_WitnessLoad ==
  /\ op.kind = "loadPartial"
  /\ steps = 1
  /\ td.isLoaded
  /\ td.rowIdCol = <<1, 2>>


(***************************************************************************)
(* openDB: what a migration error on the handle tells about the store.     *)
(***************************************************************************)
\* C36: if openDB in a read-write mode has returned a handle whose
\* migrationError is set, the store is as it was before the open: the stored
\* version is the one read at the start of the open, and the effect of no
\* migration step is in the store.
C36_ErrorMeansUntouched ==
  (/\ call.outcome = "returned"
   /\ call.mode \in {"OPEN_CREATE", "OPEN_EXISTING", "CREATE_EXCL"}
   /\ db.handle.migrationError # NoErr)
  => (/\ db.version = call.userVersion
      /\ db.data = call.data0
      /\ \A k \in 0..MaxMig : Mig(k) \notin db.data)


(***************************************************************************)
(* openDB of a store that is not behind the target version.                *)
(***************************************************************************)
\* No create, no migration and no backup was run, and the store file holds
\* what it held before the open.
NothingRun ==
  /\ \A i \in DOMAIN sqlLog : sqlLog[i][1] \notin {"create", "migration", "backup"}
  /\ ~db.backup.exists
  /\ StoreUnchanged

\* C37 as stated: opening an existing store whose version is at or above the
\* target runs no migration and no create, makes no backup, leaves version
\* and data unchanged, and the handle it returns has migrationError null and
\* migrationBackupPath null.
C37_AnyStoreNotBehind ==
  (call.existed0 /\ call.v0 >= call.nMig) =>
    /\ NothingRun
    /\ call.outcome = "returned" =>
         /\ db.handle.open
         /\ db.handle.migrationError = NoErr
         /\ db.handle.migrationBackupPath = NoPath

\* C37, amended: the same for a store that is not both at version 0 and
\* without tables (that one is initialised as a new store), the handle being
\* the one openDB returns when it returns one.
C37_NotBehindUntouched ==
  (call.existed0 /\ call.v0 >= call.nMig /\ ~(call.v0 = 0 /\ call.data0 = {})) =>
    /\ NothingRun
    /\ call.outcome = "returned" =>
         /\ db.handle.open
         /\ db.handle.migrationError = NoErr
         /\ db.handle.migrationBackupPath = NoPath

\* C37's case: a store at version 3, ahead of the target 2, has been opened
\* for reading and writing.
C37_Witness ==
  /\ call.outcome = "returned"
  /\ call.mode = "OPEN_EXISTING"
  /\ call.existed0
  /\ call.v0 = 3
  /\ call.nMig = 2
  /\ call.data0 = {Old}
  /\ db.version = 3
  /\ db.handle.migrationError = NoErr


(***************************************************************************)
(* loadData of the table's own export.                                     *)
(***************************************************************************)
\* C38: at every reachable loaded table, loadData called with the snapshot
\* the table's own getTableDataAction() returns leaves the row ids and the
\* value of every cell as they were.
C38_ReloadOwnExport ==
  td.isLoaded =>
    /\ loadDataOwnExport(td).rowIdCol = td.rowIdCol
    /\ \A c \in DOMAIN td.columns :
         getColValues(loadDataOwnExport(td), c) = getColValues(td, c)


(***************************************************************************)
(* openDB in OPEN_READONLY mode.                                           *)
(***************************************************************************)
\* C39: an openDB call in OPEN_READONLY mode, whatever the store holds (a
\* store at version 0 without tables included), issues no BEGIN, no create,
\* no migration and no version update.
C39_ReadOnlyNeverWrites ==
  call.mode = "OPEN_READONLY" =>
    \A i \in DOMAIN sqlLog :
      sqlLog[i][1] \notin {"BEGIN", "create", "migration", "PRAGMA user_version"}


(***************************************************************************)
(* getWorker: when a worker is removed.                                    *)
(***************************************************************************)
\* The fetch outcomes after which getWorker removes the worker and retries.
Convincing(managed, outcome) ==
  \/ outcome = "404 not present"
  \/ ~managed /\ outcome = "error system"

\* C40: in a getWorker call, a worker is removed only right after a fetch
\* from that worker that ended with a 404 whose JSON body has the message
\* 'document worker not present', or, with GRIST_MANAGED_WORKERS unset, with
\* a system error, and the call then asks for an assignment again, which
\* names another worker; after a fetch that ended otherwise and not ok (403,
\* another status, a 404 with another or no readable body, a timeout, any
\* error while workers are managed) the call has thrown with the worker still
\* listed and the document still assigned to it; and a call that has
\* returned has as its last step an ok fetch from the worker it returns,
\* which is the one the document is assigned to.
C40_RemoveOnlyOnEvidence ==
  /\ \A i \in DOMAIN gwLog :
       gwLog[i][1] = "remove" =>
         /\ i > 1
         /\ gwLog[i - 1][1] = "fetch"
         /\ gwLog[i - 1][2] = gwLog[i][2]
         /\ Convincing(gw.managed, gwLog[i - 1][3])
         /\ gwLog[i][2] \notin docWorkerMap.workers
         /\ i < Len(gwLog) =>
              /\ gwLog[i + 1][1] = "assign"
              /\ gwLog[i + 1][2] # gwLog[i][2]
  /\ \A i \in DOMAIN gwLog :
       (gwLog[i][1] = "fetch" /\ gwLog[i][3] # "ok"
          /\ ~Convincing(gw.managed, gwLog[i][3])) =>
         /\ i = Len(gwLog)
         /\ gw.outcome = "raised"
         /\ gwLog[i][2] \in docWorkerMap.workers
         /\ docWorkerMap.assignment = gwLog[i][2]
  /\ \A i \in DOMAIN gwLog :
       (gwLog[i][1] = "fetch" /\ Convincing(gw.managed, gwLog[i][3])) =>
         /\ gw.outcome # "raised" \/ i < Len(gwLog)
         /\ i < Len(gwLog) => gwLog[i + 1] = <<"remove", gwLog[i][2], "">>
  /\ gw.outcome = "returned" =>
       /\ gwLog # <<>>
       /\ gwLog[Len(gwLog)] = <<"fetch", gw.ret, "ok">>
       /\ docWorkerMap.assignment = gw.ret
       /\ gw.ret \in docWorkerMap.workers
  /\ \A i \in DOMAIN gwLog :
       (gwLog[i][1] = "fetch" /\ gwLog[i][3] = "ok") =>
         i = Len(gwLog) /\ gw.outcome = "returned"

\* C40's case: with workers not managed, the fetch from worker 1 raised a
\* system error, worker 1 was removed, the fetch from the next worker
\* assigned ended with the 404 of a missing worker, that one was removed too,
\* and the call has returned the ok response of the third.
C40_Witness ==
  /\ ~gw.managed
  /\ gw.outcome = "returned"
  /\ Len(gwLog) = 8
  /\ gwLog[2] = <<"fetch", 1, "error system">>
  /\ gwLog[3] = <<"remove", 1, "">>
  /\ gwLog[5][3] = "404 not present"
  /\ gwLog[6][1] = "remove"
  /\ Cardinality(docWorkerMap.workers) = 1
  /\ gw.ret \in docWorkerMap.workers

\* With workers managed, a system error of the fetch has been thrown on and
\* no worker was removed.
C40_WitnessManaged ==
  /\ gw.managed
  /\ gw.outcome = "raised"
  /\ Len(gwLog) = 2
  /\ gwLog[2][3] = "error system"
  /\ Cardinality(docWorkerMap.workers) = MaxWorkers

============================================================================
